---------------------------- MODULE Spec2Model ----------------------------
(***************************************************************************)
(* A model of the stateless OAuth 2.0 layer of mcp-daktela and of its      *)
(* per-request credential propagation:                                     *)
(*   src/src/mcp_daktela/auth.py    URL validator, bearer decoding,        *)
(*                                  DaktelaAuthMiddleware.on_call_tool     *)
(*   src/src/mcp_daktela/oauth.py   token codec, login bridge, authorize   *)
(*                                  and token endpoints                    *)
(*   src/src/mcp_daktela/config.py  get_config                             *)
(*                                                                         *)
(* Text that the code inspects character by character (URLs, the           *)
(* ALLOWED_DAKTELA_DOMAINS variable) is a sequence of one-character        *)
(* strings; text that the code only compares or tests for emptiness        *)
(* (user names, passwords, session tokens) is an atomic string.            *)
(***************************************************************************)
EXTENDS Integers, Sequences, FiniteSets, TLC

(***************************************************************************)
(* Bounds of the model.                                                    *)
(***************************************************************************)
MaxTicks == 3            \* how many times the clock is advanced
MaxDepth == 2            \* nesting depth of on_call_tool in one context
NumContexts == 2         \* concurrently running request contexts
StartTime == 1000        \* the clock at process start (seconds)

BACKEND_SESSION_LIFETIME == 7200   \* how long the backend lets a session live
BackendUtcOffset == 3600           \* the backend's timezone: seconds ahead of UTC

(***************************************************************************)
(* Program constants, oauth.py:39-41, and the expiry fallback of           *)
(* oauth.py:344 and oauth.py:505.                                          *)
(***************************************************************************)
AUTH_CODE_LIFETIME == 300
REFRESH_TOKEN_LIFETIME == 2592000
FALLBACK_ACCESS_LIFETIME == 3600

(***************************************************************************)
(* State.                                                                  *)
(*   now, ticks      the wall clock (time.time()) and how often it moved   *)
(*   env             os.environ: JWT_SECRET, ALLOWED_DAKTELA_DOMAINS,      *)
(*                   MCP_TRANSPORT and the DAKTELA_* variables             *)
(*   minted          the signed tokens the server has handed out and that  *)
(*                   a client still holds (the server itself stores        *)
(*                   nothing)                                              *)
(*   last            the last thing the server did: the response of an     *)
(*                   OAuth endpoint with the request it answers, or what   *)
(*                   an on_call_tool invocation did                        *)
(*   net             the backend login requests sent so far                *)
(*   accepted        the URLs _validate_url has returned so far            *)
(*   request_config  the ContextVar _request_config, one value per context *)
(*   headers         the HTTP headers of the request each context serves   *)
(*   stack           the on_call_tool invocations running in each context, *)
(*                   innermost last: what each installed, the token that   *)
(*                   ContextVar.set returned, and the slot at its entry    *)
(*   store           the dict _store of cache.py: for each cache key the   *)
(*                   time the entry expires at and the cached result       *)
(***************************************************************************)
VARIABLES now, ticks, env, minted, last, net, accepted,
          request_config, headers, stack, store

vars == <<now, ticks, env, minted, last, net, accepted,
          request_config, headers, stack, store>>

(***************************************************************************)
(* Python's None, and the result of a call that may raise.                 *)
(***************************************************************************)
None == [none |-> TRUE]

Ok(v) == [ok |-> TRUE, val |-> v, err |-> ""]

Raise(e) == [ok |-> FALSE, val |-> None, err |-> e]

\* F applied to the value of e, which is computed once
With(e, F(_)) == CHOOSE r \in {F(x) : x \in {e}} : TRUE

\* dict.get(key, default)
Get(d, k, default) == IF k \in DOMAIN d THEN d[k] ELSE default

(***************************************************************************)
(* Character-level string functions of Python used by auth.py.             *)
(***************************************************************************)
Whitespace == {" "}

Digits == {"0", "1", "2", "3", "4", "5", "6", "7", "8", "9"}

Lowercase ==
    <<"a", "b", "c", "d", "e", "f", "g", "h", "i", "j", "k", "l", "m",
      "n", "o", "p", "q", "r", "s", "t", "u", "v", "w", "x", "y", "z">>

\* the upper-case letters and what str.lower() makes of each
UpperToLower ==
    LET Uppercase ==
            <<"A", "B", "C", "D", "E", "F", "G", "H", "I", "J", "K", "L", "M",
              "N", "O", "P", "Q", "R", "S", "T", "U", "V", "W", "X", "Y", "Z">>
    IN  [c \in {Uppercase[i] : i \in 1..26} |->
            Lowercase[CHOOSE i \in 1..26 : Uppercase[i] = c]]

Letters == {Lowercase[i] : i \in 1..26} \cup DOMAIN UpperToLower

\* str.lower()
lower(s) ==
    [i \in 1..Len(s) |-> IF s[i] \in DOMAIN UpperToLower THEN UpperToLower[s[i]] ELSE s[i]]

RECURSIVE lstrip(_, _)
\* str.lstrip(chars)
lstrip(s, chars) ==
    IF s # <<>> /\ Head(s) \in chars THEN lstrip(Tail(s), chars) ELSE s

RECURSIVE rstrip(_, _)
\* str.rstrip(chars)
rstrip(s, chars) ==
    IF s # <<>> /\ s[Len(s)] \in chars THEN rstrip(SubSeq(s, 1, Len(s) - 1), chars) ELSE s

\* str.strip()
strip(s) == rstrip(lstrip(s, Whitespace), Whitespace)

\* str.find(any of chars) from position from, 0 when absent
FindAny(s, chars, from) ==
    LET hits == {i \in from..Len(s) : s[i] \in chars}
    IN  IF hits = {} THEN 0 ELSE CHOOSE i \in hits : \A j \in hits : i <= j

\* str.rfind(ch), 0 when absent
RFind(s, ch) ==
    LET hits == {i \in 1..Len(s) : s[i] = ch}
    IN  IF hits = {} THEN 0 ELSE CHOOSE i \in hits : \A j \in hits : i >= j

Contains(s, ch) == \E i \in 1..Len(s) : s[i] = ch

\* str.startswith(prefix)
startswith(s, prefix) ==
    Len(s) >= Len(prefix) /\ SubSeq(s, 1, Len(prefix)) = prefix

\* str.endswith(suffix)
endswith(s, suffix) ==
    Len(s) >= Len(suffix) /\ SubSeq(s, Len(s) - Len(suffix) + 1, Len(s)) = suffix

\* str.replace(ch, "")
remove(s, ch) == SelectSeq(s, LAMBDA c : c # ch)

\* str.isdigit()
isdigit(s) == s # <<>> /\ \A i \in 1..Len(s) : s[i] \in Digits

RECURSIVE split(_, _)
\* str.split(sep)
split(s, sep) ==
    LET i == FindAny(s, {sep}, 1)
    IN  IF i = 0 THEN <<s>>
        ELSE <<SubSeq(s, 1, i - 1)>> \o split(SubSeq(s, i + 1, Len(s)), sep)

RECURSIVE Text(_)
\* the characters as one string: what is stored and compared, not inspected
Text(chars) == IF chars = <<>> THEN "" ELSE Head(chars) \o Text(Tail(chars))

(***************************************************************************)
(* urllib.parse.urlparse, as far as auth.py:43-50 reads its result: the    *)
(* scheme and the hostname.  A netloc with an unmatched bracket, or with    *)
(* brackets around something that is not an IPv6 address, makes urlparse   *)
(* raise ValueError.                                                       *)
(***************************************************************************)
SchemeChars == Letters \cup Digits \cup {"+", "-", "."}

\* the end of the scheme: the first ":" when what precedes it is a scheme, else 0
url_scheme_end(url) ==
    LET colon == FindAny(url, {":"}, 1)
    IN  IF /\ colon > 1
           /\ url[1] \in Letters
           /\ \A i \in 1..(colon - 1) : url[i] \in SchemeChars
        THEN colon ELSE 0

\* what follows "//" up to the first of "/", "?", "#"
url_netloc(rest) ==
    IF ~startswith(rest, <<"/", "/">>) THEN <<>>
    ELSE With(FindAny(rest, {"/", "?", "#"}, 3),
              LAMBDA delim : IF delim = 0 THEN SubSeq(rest, 3, Len(rest))
                             ELSE SubSeq(rest, 3, delim - 1))

\* the netloc without user info, brackets and port
url_hostname(netloc) ==
    With(SubSeq(netloc, RFind(netloc, "@") + 1, Len(netloc)),
         LAMBDA hostinfo :
            With(<<FindAny(hostinfo, {"["}, 1), FindAny(hostinfo, {":"}, 1)>>,
                 LAMBDA at :
                    IF at[1] > 0
                    THEN With(FindAny(hostinfo, {"]"}, at[1] + 1),
                              LAMBDA close :
                                 SubSeq(hostinfo, at[1] + 1,
                                        (IF close = 0 THEN Len(hostinfo) ELSE close - 1)))
                    ELSE IF at[2] = 0 THEN hostinfo
                    ELSE SubSeq(hostinfo, 1, at[2] - 1)))

\* what stands between the brackets of a netloc
url_bracketed(netloc) ==
    With(<<FindAny(netloc, {"["}, 1), FindAny(netloc, {"]"}, FindAny(netloc, {"["}, 1) + 1)>>,
         LAMBDA at : SubSeq(netloc, at[1] + 1, (IF at[2] = 0 THEN Len(netloc) ELSE at[2] - 1)))

\* ipaddress.ip_address(text) is an IPv6Address
is_ipv6(text) ==
    /\ Contains(text, ":")
    /\ \A i \in 1..Len(text) :
          text[i] \in Digits \cup {"a", "b", "c", "d", "e", "f", "A", "B", "C", "D", "E", "F",
                                  ":", "."}

urlparse(url) ==
    With(url_scheme_end(url),
         LAMBDA colon :
            With(url_netloc(IF colon > 0 THEN SubSeq(url, colon + 1, Len(url)) ELSE url),
                 LAMBDA netloc :
                    IF Contains(netloc, "[") # Contains(netloc, "]")
                    THEN Raise("Invalid IPv6 URL")
                    ELSE IF Contains(netloc, "[") /\ ~is_ipv6(url_bracketed(netloc))
                    THEN Raise("Invalid IPv6 URL")
                    ELSE Ok([scheme |-> IF colon > 0 THEN lower(SubSeq(url, 1, colon - 1))
                                        ELSE <<>>,
                             hostname |-> lower(url_hostname(netloc))])))

(***************************************************************************)
(* auth.py:19-27 _get_allowed_domains                                      *)
(***************************************************************************)
DEFAULT_ALLOWED_DOMAINS == << <<"d", "a", "k", "t", "e", "l", "a", ".", "c", "o", "m">> >>

get_allowed_domains ==
    IF strip(env.ALLOWED_DAKTELA_DOMAINS) # <<>>
    THEN LET parts == split(env.ALLOWED_DAKTELA_DOMAINS, ",")
             kept == SelectSeq(parts, LAMBDA d : strip(d) # <<>>)
         IN  [i \in 1..Len(kept) |-> lower(strip(kept[i]))]
    ELSE DEFAULT_ALLOWED_DOMAINS

(***************************************************************************)
(* auth.py:30-67 _validate_url.  Every failure is a ValueError; err names  *)
(* the rule that raised it.  The URL it returns is the stripped text.       *)
(***************************************************************************)
\* _validate_url with the allow-list consulted before the IP rule
validate_url_allow_first(raw) ==
    With(rstrip(strip(raw), {"/"}),
         LAMBDA url :
            With(<<urlparse(url), get_allowed_domains>>,
                 LAMBDA p :
                    LET parsed == p[1]
                        allowed == p[2]
                        hostname == parsed.val.hostname
                    IN  IF ~parsed.ok THEN Raise(parsed.err)
                        ELSE IF parsed.val.scheme # <<"h", "t", "t", "p", "s">>
                        THEN Raise("must use HTTPS")
                        ELSE IF hostname = <<>> THEN Raise("has no hostname")
                        ELSE IF \E i \in 1..Len(allowed) :
                                    \/ hostname = allowed[i]
                                    \/ endswith(hostname, <<".">> \o allowed[i])
                        THEN Ok(Text(url))
                        ELSE IF isdigit(remove(hostname, ".")) \/ Contains(hostname, ":")
                        THEN Raise("must use a domain name, not an IP address")
                        ELSE Raise("is not allowed")))

\* _validate_url with the allow-list matching any suffix, dot or no dot
validate_url_any_suffix(raw) ==
    With(rstrip(strip(raw), {"/"}),
         LAMBDA url :
            With(<<urlparse(url), get_allowed_domains>>,
                 LAMBDA p :
                    LET parsed == p[1]
                        allowed == p[2]
                        hostname == parsed.val.hostname
                    IN  IF ~parsed.ok THEN Raise(parsed.err)
                        ELSE IF parsed.val.scheme # <<"h", "t", "t", "p", "s">>
                        THEN Raise("must use HTTPS")
                        ELSE IF hostname = <<>> THEN Raise("has no hostname")
                        ELSE IF isdigit(remove(hostname, ".")) \/ Contains(hostname, ":")
                        THEN Raise("must use a domain name, not an IP address")
                        ELSE IF ~\E i \in 1..Len(allowed) : endswith(hostname, allowed[i])
                        THEN Raise("is not allowed")
                        ELSE Ok(Text(url))))

validate_url(raw) ==
    With(rstrip(strip(raw), {"/"}),
         LAMBDA url :
            With(<<urlparse(url), get_allowed_domains>>,
                 LAMBDA p :
                    LET parsed == p[1]
                        allowed == p[2]
                        hostname == parsed.val.hostname
                    IN  IF ~parsed.ok THEN Raise(parsed.err)
                        ELSE IF parsed.val.scheme # <<"h", "t", "t", "p", "s">>
                        THEN Raise("must use HTTPS")
                        ELSE IF hostname = <<>> THEN Raise("has no hostname")
                        ELSE IF isdigit(remove(hostname, ".")) \/ Contains(hostname, ":")
                        THEN Raise("must use a domain name, not an IP address")
                        ELSE IF ~\E i \in 1..Len(allowed) :
                                    \/ hostname = allowed[i]
                                    \/ endswith(hostname, <<".">> \o allowed[i])
                        THEN Raise("is not allowed")
                        ELSE Ok(Text(url))))

(***************************************************************************)
(* The token codec.  jwt.encode and jwt.decode are PyJWT's: a token is its *)
(* header's alg, the JSON body (the claims in the order the dict was       *)
(* built) and the HMAC of both under the key; a string that is not three   *)
(* segments has seg # 3.  The HMAC is ideal: it is the pair of the key and *)
(* the signed text, so it can be recomputed only with the key.             *)
(***************************************************************************)
ClaimOrder ==
    <<"type", "daktela_url", "daktela_access_token", "daktela_access_exp",
      "daktela_username", "daktela_password", "code_challenge", "client_id",
      "redirect_uri", "exp">>

json_dumps(payload) ==
    LET keys == SelectSeq(ClaimOrder, LAMBDA k : k \in DOMAIN payload)
    IN  [i \in 1..Len(keys) |-> <<keys[i], payload[keys[i]]>>]

json_loads(body) ==
    [k \in {body[i][1] : i \in 1..Len(body)} |->
        body[CHOOSE i \in 1..Len(body) : body[i][1] = k][2]]

hmac(key, alg, body) == <<key, alg, body>>

Malformed == [seg |-> 1, alg |-> "", body |-> <<>>, sig |-> <<>>]

jwt_encode(payload, key) ==
    [seg |-> 3, alg |-> "HS256", body |-> json_dumps(payload),
     sig |-> hmac(key, "HS256", json_dumps(payload))]

\* jwt.decode with options={"verify_exp": False}: the clock is not consulted
jwt_decode_unexpiring(token, key) ==
    IF token.seg # 3 THEN Raise("DecodeError")
    ELSE IF token.alg # "HS256" THEN Raise("InvalidAlgorithmError")
    ELSE IF token.sig # hmac(key, token.alg, token.body) THEN Raise("InvalidSignatureError")
    ELSE Ok(json_loads(token.body))

\* jwt.decode(token, key, algorithms=["HS256"]): the segments, the algorithm,
\* the signature, and then the registered claim exp against the clock
jwt_decode(token, key) ==
    IF token.seg # 3 THEN Raise("DecodeError")
    ELSE IF token.alg # "HS256" THEN Raise("InvalidAlgorithmError")
    ELSE IF token.sig # hmac(key, token.alg, token.body) THEN Raise("InvalidSignatureError")
    ELSE LET payload == json_loads(token.body)
         IN  IF "exp" \in DOMAIN payload /\ payload.exp <= now
             THEN Raise("ExpiredSignatureError")
             ELSE Ok(payload)

\* oauth.py:102-106 _get_jwt_secret
get_jwt_secret ==
    IF env.JWT_SECRET = "" THEN Raise("ValueError") ELSE Ok(env.JWT_SECRET)

\* oauth.py:116-117 _sign_jwt
sign_jwt(payload) ==
    IF ~get_jwt_secret.ok THEN Raise("ValueError")
    ELSE Ok(jwt_encode(payload, get_jwt_secret.val))

\* _decode_jwt without the comparison of the type claim
decode_jwt_untyped(token, expected_type) ==
    IF ~get_jwt_secret.ok THEN Raise("ValueError")
    ELSE jwt_decode(token, get_jwt_secret.val)

\* oauth.py:120-125 _decode_jwt
decode_jwt(token, expected_type) ==
    IF ~get_jwt_secret.ok THEN Raise("ValueError")
    ELSE LET decoded == jwt_decode(token, get_jwt_secret.val)
         IN  IF ~decoded.ok THEN decoded
             ELSE IF "type" \notin DOMAIN decoded.val \/ decoded.val.type # expected_type
                  THEN Raise("InvalidTokenError")
                  ELSE decoded

\* The errors that `except (jwt.ExpiredSignatureError, jwt.InvalidTokenError)`
\* catches: every error PyJWT raises, and not the ValueError of a missing secret.
JwtErrors ==
    {"DecodeError", "InvalidAlgorithmError", "InvalidSignatureError",
     "ExpiredSignatureError", "InvalidTokenError"}

(***************************************************************************)
(* PKCE, oauth.py:441-445.  str.encode("ascii") raises UnicodeEncodeError  *)
(* on a character outside ASCII; SHA-256 followed by unpadded base64url is *)
(* an ideal hash: distinct inputs have distinct digests.                   *)
(***************************************************************************)
NonAsciiChars == {"U+00E9"}

encode_ascii(text) ==
    IF \E i \in 1..Len(text) : text[i] \in NonAsciiChars
    THEN Raise("UnicodeEncodeError")
    ELSE Ok(text)

s256_challenge(bytes) == <<"b64url-sha256", Text(bytes)>>

(***************************************************************************)
(* An absent token-valued form field or header is the empty string.        *)
(***************************************************************************)
Empty == [seg |-> 0, alg |-> "", body |-> <<>>, sig |-> <<>>]

(***************************************************************************)
(* oauth.py:109-113 _parse_daktela_datetime.  The backend's                *)
(* accessTokenExpirationDate is a wall-clock reading without a zone;       *)
(* wall is that reading in seconds, and the code takes it as UTC.  A       *)
(* missing or ill-formed date makes strptime raise ValueError.             *)
(***************************************************************************)
parse_daktela_datetime(dt_str) ==
    IF dt_str.wellformed THEN Ok(dt_str.wall) ELSE Raise("ValueError")

(***************************************************************************)
(* oauth.py:135-153 _daktela_login.  reply is what the backend does with   *)
(* the request: no connection, a status, and on 200 a body.  The result is *)
(* an error string (is_str) or the result dict; a body that is not JSON or *)
(* not a JSON object makes resp.json().get raise.                          *)
(***************************************************************************)
daktela_login(daktela_url, username, password, reply) ==
    IF reply.kind = "HTTPError"
    THEN Ok([is_str |-> TRUE, text |-> "Could not connect to Daktela instance"])
    ELSE IF reply.status # 200
    THEN Ok([is_str |-> TRUE, text |-> "Invalid username or password"])
    ELSE IF reply.body = "not json" THEN Raise("JSONDecodeError")
    ELSE IF reply.body = "not an object" THEN Raise("AttributeError")
    ELSE IF Get(reply.result, "accessToken", "") = ""
    THEN Ok([is_str |-> TRUE, text |-> "Unexpected response from Daktela API"])
    ELSE Ok([is_str |-> FALSE, result |-> reply.result])

\* oauth.py:338-344 and 500-505: the expiry of the backend session
access_expiry(login_result) ==
    LET parsed == parse_daktela_datetime(
                      Get(login_result, "accessTokenExpirationDate", [wellformed |-> FALSE]))
    IN  IF parsed.ok THEN parsed.val ELSE now + FALLBACK_ACCESS_LIFETIME

(***************************************************************************)
(* Responses.  A handler returns what it answers, the tokens it signed     *)
(* (with the claims they were signed from), the login request it sent and  *)
(* the URL the validator returned to it.  An exception that leaves the     *)
(* handler is answered 500 by the framework.                               *)
(***************************************************************************)
NoEffects == [signed |-> {}, logins |-> {}, validated |-> {}]

JsonError(error, description) ==
    [status |-> 400, error |-> error, error_description |-> description,
     access_token |-> Empty, refresh_token |-> Empty, expires_in |-> 0]

ServerError(exception) ==
    [status |-> 500, error |-> exception, error_description |-> "",
     access_token |-> Empty, refresh_token |-> Empty, expires_in |-> 0]

Max(a, b) == IF a >= b THEN a ELSE b

\* an access token that also carries the credentials of the end user
access_token_with_credentials(daktela_url, daktela_access_token, access_exp, username, password) ==
    [type |-> "access_token",
     daktela_url |-> daktela_url,
     daktela_access_token |-> daktela_access_token,
     daktela_username |-> username,
     daktela_password |-> password,
     exp |-> access_exp]

\* oauth.py:397-402: the claims of the access token, from the arguments of
\* _issue_token_response
access_token_payload(daktela_url, daktela_access_token, access_exp, username, password) ==
    [type |-> "access_token",
     daktela_url |-> daktela_url,
     daktela_access_token |-> daktela_access_token,
     exp |-> access_exp]

\* a fixed lifetime reported to the client
expires_in_fixed(access_exp) == FALLBACK_ACCESS_LIFETIME

\* oauth.py:410 expires_in
expires_in(access_exp) == Max(0, access_exp - now)

\* a refresh token for the account the server's own environment names
refresh_token_of_static_user(daktela_url, username, password) ==
    [type |-> "refresh_token",
     daktela_url |-> daktela_url,
     daktela_username |-> env.DAKTELA_USERNAME,
     daktela_password |-> env.DAKTELA_PASSWORD,
     exp |-> now + REFRESH_TOKEN_LIFETIME]

\* oauth.py:403-409: the claims of a refresh token
refresh_token_payload(daktela_url, username, password) ==
    [type |-> "refresh_token",
     daktela_url |-> daktela_url,
     daktela_username |-> username,
     daktela_password |-> password,
     exp |-> now + REFRESH_TOKEN_LIFETIME]

(***************************************************************************)
(* oauth.py:389-416 _issue_token_response                                  *)
(***************************************************************************)
issue_token_response(daktela_url, daktela_access_token, access_exp, username, password) ==
    LET access_claims == access_token_payload(daktela_url, daktela_access_token, access_exp,
                                              username, password)
        refresh_claims == refresh_token_payload(daktela_url, username, password)
        access_token == sign_jwt(access_claims)
        refresh_token == sign_jwt(refresh_claims)
    IN  IF ~access_token.ok \/ ~refresh_token.ok
        THEN [response |-> ServerError("ValueError"), signed |-> {}]
        ELSE [response |-> [status |-> 200, error |-> "", error_description |-> "",
                            access_token |-> access_token.val,
                            refresh_token |-> refresh_token.val,
                            expires_in |-> expires_in(access_exp)],
              signed |-> {[claims |-> access_claims, token |-> access_token.val],
                          [claims |-> refresh_claims, token |-> refresh_token.val]}]

\* the exchange without the comparison of redirect URIs
redirect_uri_unchecked(redirect_uri, payload) == FALSE

\* oauth.py:452-453: a redirect_uri was sent and is not the one in the code
redirect_uri_mismatch(redirect_uri, payload) ==
    redirect_uri # "" /\ redirect_uri # Get(payload, "redirect_uri", "")

(***************************************************************************)
(* oauth.py:419-465 _handle_auth_code_exchange                             *)
(***************************************************************************)
handle_auth_code_exchange(form) ==
    LET code == form.code
        code_verifier == form.code_verifier
        redirect_uri == form.redirect_uri
        decoded == decode_jwt(code, "auth_code")
        payload == decoded.val
        verifier_bytes == encode_ascii(code_verifier)
        expected_challenge == s256_challenge(verifier_bytes.val)
        issued == issue_token_response(payload.daktela_url, payload.daktela_access_token,
                                       payload.daktela_access_exp, payload.daktela_username,
                                       payload.daktela_password)
    IN  IF code = Empty \/ code_verifier = <<>>
        THEN [response |-> JsonError("invalid_request", "code and code_verifier required")]
             @@ NoEffects
        ELSE IF ~decoded.ok /\ decoded.err \in JwtErrors
        THEN [response |-> JsonError("invalid_grant", decoded.err)] @@ NoEffects
        ELSE IF ~decoded.ok
        THEN [response |-> ServerError(decoded.err)] @@ NoEffects
        ELSE IF ~verifier_bytes.ok
        THEN [response |-> ServerError(verifier_bytes.err)] @@ NoEffects
        ELSE IF expected_challenge # Get(payload, "code_challenge", <<>>)
        THEN [response |-> JsonError("invalid_grant", "PKCE verification failed")] @@ NoEffects
        ELSE IF redirect_uri_mismatch(redirect_uri, payload)
        THEN [response |-> JsonError("invalid_grant", "redirect_uri mismatch")] @@ NoEffects
        ELSE issued @@ NoEffects

(***************************************************************************)
(* oauth.py:468-513 _handle_refresh                                        *)
(***************************************************************************)
handle_refresh(form, reply) ==
    LET refresh_token_str == form.refresh_token
        decoded == decode_jwt(refresh_token_str, "refresh_token")
        payload == decoded.val
        daktela_url == payload.daktela_url
        username == payload.daktela_username
        password == payload.daktela_password
        login == daktela_login(daktela_url, username, password, reply)
        sent == [signed |-> {}, validated |-> {},
                 logins |-> {[url |-> daktela_url, username |-> username,
                              password |-> password, by |-> "refresh"]}]
        issued == issue_token_response(daktela_url, login.val.result.accessToken,
                                       access_expiry(login.val.result), username, password)
    IN  IF refresh_token_str = Empty
        THEN [response |-> JsonError("invalid_request", "refresh_token required")] @@ NoEffects
        ELSE IF ~decoded.ok /\ decoded.err \in JwtErrors
        THEN [response |-> JsonError("invalid_grant", decoded.err)] @@ NoEffects
        ELSE IF ~decoded.ok
        THEN [response |-> ServerError(decoded.err)] @@ NoEffects
        ELSE IF ~login.ok
        THEN [response |-> ServerError(login.err)] @@ sent
        ELSE IF login.val.is_str
        THEN [response |-> JsonError("invalid_grant", login.val.text)] @@ sent
        ELSE issued @@ sent

(***************************************************************************)
(* oauth.py:370-386 handle_token.  A body that cannot be read as a form    *)
(* has readable = FALSE.                                                   *)
(***************************************************************************)
handle_token(form, reply) ==
    IF ~form.readable
    THEN [response |-> [status |-> 400, error |-> "invalid_request",
                        access_token |-> Empty, refresh_token |-> Empty, expires_in |-> 0]]
         @@ NoEffects
    ELSE IF form.grant_type = "authorization_code" THEN handle_auth_code_exchange(form)
    ELSE IF form.grant_type = "refresh_token" THEN handle_refresh(form, reply)
    ELSE [response |-> JsonError("unsupported_grant_type", "Unsupported: " \o form.grant_type)]
         @@ NoEffects

(***************************************************************************)
(* oauth.py:279-299 _render_login: the hidden fields come from the query   *)
(* string of the request, the URL and user name from the arguments; the    *)
(* template has no value for the password field.                           *)
(***************************************************************************)
\* a text with a double quote in it
QuotedText == "st\"x"

\* oauth.py:255-259: the template puts a text between the double quotes of
\* value="..." as it is; the value of the field is what a browser reads
\* there, the text up to its first double quote
input_value(text) == IF text = QuotedText THEN "st" ELSE text

render_login(request, error, daktela_url, username) ==
    [status |-> 200, kind |-> "form", error |-> error, location |-> None,
     client_id |-> input_value(Get(request.query_params, "client_id", "")),
     redirect_uri |-> input_value(Get(request.query_params, "redirect_uri", "")),
     code_challenge |-> Get(request.query_params, "code_challenge", <<>>),
     code_challenge_method |->
         input_value(Get(request.query_params, "code_challenge_method", "S256")),
     state |-> input_value(Get(request.query_params, "state", "")),
     daktela_url |-> daktela_url, username |-> username, password |-> ""]

\* the submitted URL taken as it is, normalized but not checked
authorize_unvalidated(daktela_url) == Ok(Text(rstrip(strip(daktela_url), {"/"})))

\* oauth.py:326-330: the SSRF check of the submitted URL
authorize_validate(daktela_url) == validate_url(daktela_url)

(***************************************************************************)
(* oauth.py:302-367 handle_authorize                                       *)
(***************************************************************************)
handle_authorize(request, reply) ==
    LET form == request.form
        daktela_url == strip(Get(form, "daktela_url", <<>>))
        username == Text(strip(Get(form, "username", <<>>)))
        password == Get(form, "password", "")
        redirect_uri == Get(form, "redirect_uri", "")
        client_id == Get(form, "client_id", "")
        code_challenge == Get(form, "code_challenge", <<>>)
        code_challenge_method == Get(form, "code_challenge_method", "S256")
        state == Get(form, "state", "")
        checked == authorize_validate(daktela_url)
        seen == [signed |-> {}, logins |-> {},
                 validated |-> IF validate_url(daktela_url).ok
                               THEN {validate_url(daktela_url).val} ELSE {}]
        login == daktela_login(checked.val, username, password, reply)
        sent == [seen EXCEPT !.logins = {[url |-> checked.val, username |-> username,
                                          password |-> password, by |-> "authorize"]}]
        auth_code_payload ==
            [type |-> "auth_code",
             daktela_url |-> checked.val,
             daktela_access_token |-> login.val.result.accessToken,
             daktela_access_exp |-> access_expiry(login.val.result),
             daktela_username |-> username,
             daktela_password |-> password,
             code_challenge |-> code_challenge,
             client_id |-> client_id,
             redirect_uri |-> redirect_uri,
             exp |-> now + AUTH_CODE_LIFETIME]
        auth_code == sign_jwt(auth_code_payload)
    IN  IF request.method = "GET"
        THEN [response |-> render_login(request, "", "", "")] @@ NoEffects
        ELSE IF redirect_uri = ""
        THEN [response |-> render_login(request, "Missing redirect_uri", Text(daktela_url),
                                        username)]
             @@ NoEffects
        ELSE IF code_challenge_method # "S256"
        THEN [response |-> render_login(request, "Only S256 code challenge method is supported",
                                        Text(daktela_url), username)] @@ NoEffects
        ELSE IF ~checked.ok
        THEN [response |-> render_login(request, checked.err, Text(daktela_url), username)]
             @@ seen
        ELSE IF ~login.ok
        THEN [response |-> ServerError(login.err)] @@ sent
        ELSE IF login.val.is_str
        THEN [response |-> render_login(request, login.val.text, checked.val, username)] @@ sent
        ELSE IF ~auth_code.ok
        THEN [response |-> ServerError(auth_code.err)] @@ sent
        ELSE [response |-> [status |-> 302, kind |-> "redirect",
                            location |-> [redirect_uri |-> redirect_uri,
                                          code |-> auth_code.val,
                                          state |-> state]],
              signed |-> {[claims |-> auth_code_payload, token |-> auth_code.val]}] @@ sent

\* a middleware that does not look at the Authorization header
bearer_ignored(auth_header) == Ok(None)

(***************************************************************************)
(* auth.py:70-93 _decode_bearer_token.  The Authorization header is its    *)
(* scheme prefix and the rest; startswith("Bearer ") reads the prefix.     *)
(***************************************************************************)
decode_bearer_token(auth_header) ==
    LET decoded == jwt_decode(auth_header.credentials, env.JWT_SECRET)
        payload == decoded.val
        daktela_url == Get(payload, "daktela_url", "")
        daktela_access_token == Get(payload, "daktela_access_token", "")
    IN  IF auth_header.scheme # "Bearer " THEN Ok(None)
        ELSE IF env.JWT_SECRET = "" THEN Ok(None)
        ELSE IF ~decoded.ok THEN decoded
        ELSE IF "type" \notin DOMAIN payload \/ payload.type # "access_token"
        THEN Raise("Invalid token type")
        ELSE IF daktela_url = "" \/ daktela_access_token = ""
        THEN Raise("Token missing required claims")
        ELSE Ok([url |-> daktela_url, token |-> daktela_access_token])

NoAuthorization == [scheme |-> "", credentials |-> Empty]

\* a choice that takes the access token whenever there is one
header_config_token_first(url, username, password, token) ==
    IF token # "" THEN Ok([url |-> url, token |-> token])
    ELSE IF username # "" /\ password # ""
    THEN Ok([url |-> url, username |-> username, password |-> password])
    ELSE Raise("Either X-Daktela-Username + X-Daktela-Password or X-Daktela-Access-Token header is required")

\* auth.py:147-155: the config made of the validated URL and the
\* credential headers
header_config(url, username, password, token) ==
    IF username # "" /\ password # ""
    THEN Ok([url |-> url, username |-> username, password |-> password])
    ELSE IF token # "" THEN Ok([url |-> url, token |-> token])
    ELSE Raise("Either X-Daktela-Username + X-Daktela-Password or X-Daktela-Access-Token header is required")

(***************************************************************************)
(* auth.py:114-161 DaktelaAuthMiddleware.on_call_tool, up to its await of  *)
(* call_next: the error it raises instead, or the invocations of call_next *)
(* it makes, each with the config it installs first (install) or with the  *)
(* slot left alone.  validated is what _validate_url returned to it.       *)
(***************************************************************************)
on_call_tool(hdrs) ==
    LET auth_header == Get(hdrs, "authorization", NoAuthorization)
        bearer == decode_bearer_token(auth_header)
        url == Get(hdrs, "x-daktela-url", <<>>)
        username == Get(hdrs, "x-daktela-username", "")
        password == Get(hdrs, "x-daktela-password", "")
        token == Get(hdrs, "x-daktela-access-token", "")
        checked == validate_url(url)
        chosen == header_config(checked.val, username, password, token)
        Raised(e, v) == [raised |-> e, invocations |-> <<>>, validated |-> v]
        Invoke(i, cfg, v) ==
            [raised |-> "", invocations |-> <<[install |-> i, config |-> cfg]>>, validated |-> v]
    IN  IF auth_header.scheme = "Bearer " /\ ~bearer.ok THEN Raised(bearer.err, {})
        ELSE IF auth_header.scheme = "Bearer " /\ bearer.val # None
        THEN Invoke(TRUE, bearer.val, {})
        ELSE IF url = <<>> /\ username = "" /\ password = "" /\ token = ""
        THEN Invoke(FALSE, None, {})
        ELSE IF url = <<>> THEN Raised("X-Daktela-Url header is required", {})
        ELSE IF ~checked.ok THEN Raised(checked.err, {})
        ELSE IF ~chosen.ok THEN Raised(chosen.err, {checked.val})
        ELSE Invoke(TRUE, chosen.val, {checked.val})

(***************************************************************************)
(* contextvars.ContextVar, auth.py:13-15: every context has its own value  *)
(* of the variable; set returns the token that reset restores.             *)
(***************************************************************************)
\* a module-level global in place of the ContextVar: one value for all contexts
GlobalSet(cv, c, value) == [k \in DOMAIN cv |-> value]

ContextVarSet(cv, c, value) == [cv EXCEPT ![c] = value]

ContextVarReset(cv, c, reset_token) == [cv EXCEPT ![c] = reset_token]

\* the reset after the await instead of in a finally block: it runs only
\* when call_next returns
reset_on_return(cv, c, frame, how) ==
    IF frame.install /\ how = "returned" THEN ContextVarReset(cv, c, frame.reset_token) ELSE cv

\* auth.py:127-130 and 158-161: try: return await call_next(context) finally: reset
after_call_next(cv, c, frame, how) ==
    IF frame.install THEN ContextVarReset(cv, c, frame.reset_token) ELSE cv

(***************************************************************************)
(* config.py:6-49 get_config, called in context c                          *)
(***************************************************************************)
\* config.py:29-49: the config made of the DAKTELA_* environment variables
env_config ==
    LET url == Text(rstrip(env.DAKTELA_URL, {"/"}))
    IN  IF env.DAKTELA_URL = <<>> THEN Raise("DAKTELA_URL environment variable is required")
        ELSE IF env.DAKTELA_USERNAME # "" /\ env.DAKTELA_PASSWORD # ""
        THEN Ok([url |-> url, username |-> env.DAKTELA_USERNAME,
                 password |-> env.DAKTELA_PASSWORD])
        ELSE IF env.DAKTELA_ACCESS_TOKEN # ""
        THEN Ok([url |-> url, token |-> env.DAKTELA_ACCESS_TOKEN])
        ELSE Raise("Either DAKTELA_USERNAME + DAKTELA_PASSWORD or DAKTELA_ACCESS_TOKEN environment variables are required")

\* get_config without the guard of the HTTP transport
get_config_unguarded(c) ==
    IF request_config[c] # None THEN Ok(request_config[c]) ELSE env_config

get_config(c) ==
    LET ctx_config == request_config[c]
    IN  IF ctx_config # None THEN Ok(ctx_config)
        ELSE IF env.MCP_TRANSPORT = "streamable-http"
        THEN Raise("Daktela credentials must be provided via HTTP headers")
        ELSE env_config

(***************************************************************************)
(* The inputs the environment chooses from.                                *)
(***************************************************************************)
HTTPS == <<"h", "t", "t", "p", "s", ":", "/", "/">>

DAKTELA_COM == <<"d", "a", "k", "t", "e", "l", "a", ".", "c", "o", "m">>

\* " https://a.daktela.com// ": accepted, and normalized
UrlTenantA == <<" ">> \o HTTPS \o <<"a", ".">> \o DAKTELA_COM \o <<"/", "/", " ">>

\* "https://b.daktela.com"
UrlTenantB == HTTPS \o <<"b", ".">> \o DAKTELA_COM

\* "http://a.daktela.com"
UrlPlainHttp == <<"h", "t", "t", "p", ":", "/", "/", "a", ".">> \o DAKTELA_COM

\* "https://10.0.0.1"
UrlIpLiteral == HTTPS \o <<"1", "0", ".", "0", ".", "0", ".", "1">>

\* "https://notdaktela.com"
UrlOtherDomain == HTTPS \o <<"n", "o", "t">> \o DAKTELA_COM

StaticUrl == HTTPS \o <<"s", ".">> \o DAKTELA_COM \o <<"/">>

\* the process environments: an HTTP deployment with the signing secret (and
\* static credentials left in its environment), one without the secret, and
\* a local stdio process with custom domains and static credentials
Environments ==
    {[JWT_SECRET |-> "server-key", ALLOWED_DAKTELA_DOMAINS |-> <<>>,
      MCP_TRANSPORT |-> "streamable-http", DAKTELA_URL |-> StaticUrl,
      DAKTELA_USERNAME |-> "", DAKTELA_PASSWORD |-> "",
      DAKTELA_ACCESS_TOKEN |-> "static-token"],
     [JWT_SECRET |-> "", ALLOWED_DAKTELA_DOMAINS |-> <<>>,
      MCP_TRANSPORT |-> "streamable-http", DAKTELA_URL |-> <<>>,
      DAKTELA_USERNAME |-> "", DAKTELA_PASSWORD |-> "",
      DAKTELA_ACCESS_TOKEN |-> ""],
     [JWT_SECRET |-> "",
      ALLOWED_DAKTELA_DOMAINS |-> <<"1", "0", ".", "0", ".", "0", ".", "1", ",", " ">> \o DAKTELA_COM,
      MCP_TRANSPORT |-> "stdio", DAKTELA_URL |-> StaticUrl,
      DAKTELA_USERNAME |-> "static-user", DAKTELA_PASSWORD |-> "static-password",
      DAKTELA_ACCESS_TOKEN |-> ""]}

\* how far the clock moves, tick after tick: to the last second of an
\* authorization code, past it, past the life of a refresh token, then on
ClockSchedule == <<AUTH_CODE_LIFETIME - 1, 1, REFRESH_TOKEN_LIFETIME>>

Delay(k) == IF k <= Len(ClockSchedule) THEN ClockSchedule[k] ELSE 1

Verifier1 == <<"v", "1">>

Verifier2 == <<"v", "2">>

VerifierNonAscii == <<"v", "U+00E9">>

Verifiers == {<<>>, Verifier1, Verifier2, VerifierNonAscii}

RedirectUris == {"", "https://client.example/cb", "https://other.example/cb"}

\* how the backend writes an instant: the reading of a clock in its own
\* timezone, without the zone
BackendDate(instant) == [wellformed |-> TRUE, wall |-> instant + BackendUtcOffset]

\* the instant the backend means by a date it wrote
BackendInstant(date) == date.wall - BackendUtcOffset

\* a date that, read as UTC, is already past: a session about to end at a
\* backend whose clock is behind UTC
StaleDate == [wellformed |-> TRUE, wall |-> now - 1]

\* what the backend may do with a login request: a session lives
\* BACKEND_SESSION_LIFETIME from the login, or is about to end
BackendReplies ==
    {[kind |-> "HTTPError"],
     [kind |-> "response", status |-> 401],
     [kind |-> "response", status |-> 200, body |-> "not json"],
     [kind |-> "response", status |-> 200, body |-> "not an object"],
     [kind |-> "response", status |-> 200, body |-> "json", result |-> [error |-> "x"]]}
    \cup
    {[kind |-> "response", status |-> 200, body |-> "json",
      result |-> [accessToken |-> session, accessTokenExpirationDate |-> date]] :
        session \in {"session-1"},
        date \in {BackendDate(now + BACKEND_SESSION_LIFETIME), StaleDate}}
    \cup
    {[kind |-> "response", status |-> 200, body |-> "json",
      result |-> [accessToken |-> "session-2"]]}

\* the form is asked for, and it is posted: to the URL it was served from,
\* query string included, as a browser does, or to the bare endpoint
AuthorizeRequests ==
    {[method |-> "GET", form |-> <<>>,
      query_params |-> [client_id |-> "client-1", redirect_uri |-> "https://client.example/cb",
                        code_challenge |-> s256_challenge(Verifier1),
                        code_challenge_method |-> "S256", state |-> state]] :
        state \in {"st", QuotedText}}
    \cup
    {[method |-> "POST",
      form |-> [daktela_url |-> url, username |-> <<" ", "u", "1">>, password |-> "password-1",
                redirect_uri |-> redirect_uri, client_id |-> "client-1",
                code_challenge |-> challenge, code_challenge_method |-> method,
                state |-> state],
      query_params |-> IF with_query
                       THEN [client_id |-> "client-1", redirect_uri |-> redirect_uri,
                             code_challenge |-> challenge, code_challenge_method |-> method,
                             state |-> state]
                       ELSE <<>>] :
        url \in {UrlTenantA, UrlPlainHttp, UrlIpLiteral, UrlOtherDomain},
        redirect_uri \in {"", "https://client.example/cb"},
        challenge \in {s256_challenge(Verifier1)},
        method \in {"S256", "plain"},
        state \in {"", "st", QuotedText},
        with_query \in BOOLEAN}

(***************************************************************************)
(* The tokens a client can present: the ones the server signed, and what   *)
(* can be made of them without the key (another key, alg none, a changed   *)
(* body under the old signature), and text that is no token.               *)
(***************************************************************************)
Forgeries(t) ==
    {jwt_encode(json_loads(t.body), "attacker-key"),
     [t EXCEPT !.alg = "none", !.sig = <<>>],
     [t EXCEPT !.body = json_dumps([json_loads(t.body) EXCEPT !.type = "access_token"])],
     [t EXCEPT !.body = json_dumps([json_loads(t.body) EXCEPT
                                       !.exp = @ + REFRESH_TOKEN_LIFETIME])]}

AttackerTokens ==
    {Malformed,
     jwt_encode([type |-> "access_token", daktela_url |-> Text(UrlIpLiteral),
                 daktela_access_token |-> "x", exp |-> now + 1], "attacker-key")}

Presentable == minted \cup AttackerTokens \cup UNION {Forgeries(t) : t \in minted}

TokenForm(grant_type, code, verifier, redirect_uri, refresh_token) ==
    [readable |-> TRUE, grant_type |-> grant_type, code |-> code,
     code_verifier |-> verifier, redirect_uri |-> redirect_uri,
     refresh_token |-> refresh_token]

\* grant_type=authorization_code: every verifier and redirect_uri with the
\* codes the server signed, and everything else that can be sent as a code
ExchangeForms ==
    {TokenForm("authorization_code", code, verifier, redirect_uri, Empty) :
        code \in minted, verifier \in Verifiers, redirect_uri \in RedirectUris}
    \cup
    {TokenForm("authorization_code", code, Verifier1, "https://client.example/cb", Empty) :
        code \in (Presentable \ minted) \cup {Empty}}

\* grant_type=refresh_token
RefreshForms ==
    {TokenForm("refresh_token", Empty, <<>>, "", refresh_token) :
        refresh_token \in Presentable \cup {Empty}}

\* a body that is no form, and grant types the endpoint does not know
OtherForms ==
    {[readable |-> FALSE]}
    \cup
    {TokenForm(grant_type, Empty, <<>>, "", Empty) : grant_type \in {"", "password"}}

TokenForms == ExchangeForms \cup RefreshForms \cup OtherForms

Contexts == 1..NumContexts

HeaderDict(auth, url, username, password, token) ==
    LET present == (IF auth # NoAuthorization THEN {"authorization"} ELSE {})
                   \cup (IF url # <<>> THEN {"x-daktela-url"} ELSE {})
                   \cup (IF username # "" THEN {"x-daktela-username"} ELSE {})
                   \cup (IF password # "" THEN {"x-daktela-password"} ELSE {})
                   \cup (IF token # "" THEN {"x-daktela-access-token"} ELSE {})
    IN  [k \in present |->
            CASE k = "authorization" -> auth
              [] k = "x-daktela-url" -> url
              [] k = "x-daktela-username" -> username
              [] k = "x-daktela-password" -> password
              [] k = "x-daktela-access-token" -> token]

BearerHeaders == {[scheme |-> "Bearer ", credentials |-> t] : t \in Presentable \cup {Empty}}

AuthorizationHeaders ==
    {NoAuthorization, [scheme |-> "Basic ", credentials |-> Malformed]} \cup BearerHeaders

\* every combination of headers a request can carry
HeaderSets ==
    {HeaderDict(auth, url, username, password, token) :
        auth \in AuthorizationHeaders,
        url \in {<<>>, UrlTenantB, UrlIpLiteral},
        username \in {"", "header-user"},
        password \in {"", "header-password"},
        token \in {"", "header-token"}}

NoHeaders == <<>>

\* the requests sent to the tool endpoint between the requests of the OAuth
\* flow: every Authorization value, alone or with a valid set of
\* X-Daktela-* headers
ToolCallHeaders ==
    {HeaderDict(auth, x[1], "", "", x[2]) :
        auth \in AuthorizationHeaders,
        x \in {<<(<<>>), "">>, <<UrlTenantB, "header-token">>}}

(***************************************************************************)
(* Init: a fresh process, no token signed yet, no request in progress.     *)
(***************************************************************************)
Init ==
    /\ now = StartTime
    /\ ticks = 0
    /\ env \in Environments
    /\ minted = {}
    /\ last = [op |-> "none"]
    /\ net = {}
    /\ accepted = {}
    /\ request_config = [c \in Contexts |-> None]
    /\ headers = [c \in Contexts |-> NoHeaders]
    /\ stack = [c \in Contexts |-> <<>>]
    /\ store = <<>>

\* no tool call is in progress
Idle == \A c \in Contexts : stack[c] = <<>>

\* no request is in progress and the last response has reached its client
Quiet == Idle /\ last.op = "none"

\* time passes
Tick ==
    /\ ticks < MaxTicks
    /\ Quiet
    /\ now' = now + Delay(ticks + 1)
    /\ ticks' = ticks + 1
    /\ UNCHANGED <<env, minted, last, net, accepted, request_config, headers, stack, store>>

TypeOf(t) == json_loads(t.body).type

\* a client that is handed an authorization code starts over; one that is
\* handed an access and a refresh token keeps them in place of the ones it held
Kept(held, signed) ==
    IF \E n \in signed : TypeOf(n) = "auth_code" THEN signed
    ELSE {t \in held : \A n \in signed : TypeOf(n) # TypeOf(t)} \cup signed

\* what a handler's run leaves behind
Served(op, request, reply, out) ==
    /\ minted' = Kept(minted, {s.token : s \in out.signed})
    /\ net' = net \cup out.logins
    /\ accepted' = accepted \cup out.validated
    /\ last' = [op |-> op, request |-> request, reply |-> reply,
                response |-> out.response, signed |-> out.signed, logins |-> out.logins]
    /\ UNCHANGED <<now, ticks, env, request_config, headers, stack, store>>

\* the backend is asked only by a handler that gets as far as the login
Unasked == [kind |-> "HTTPError"]

\* a request to /oauth/authorize
Authorize ==
    /\ Quiet
    /\ \E request \in AuthorizeRequests :
        \E reply \in (IF handle_authorize(request, Unasked).logins = {}
                      THEN {Unasked} ELSE BackendReplies) :
            Served("authorize", request, reply, handle_authorize(request, reply))

\* a request to /oauth/token with grant_type=authorization_code
TokenExchange ==
    /\ Quiet
    /\ \E form \in ExchangeForms :
        Served("token", form, Unasked, handle_token(form, Unasked))

\* a request to /oauth/token with grant_type=refresh_token
TokenRefresh ==
    /\ Quiet
    /\ \E form \in RefreshForms :
        \E reply \in (IF handle_token(form, Unasked).logins = {}
                      THEN {Unasked} ELSE BackendReplies) :
            Served("token", form, reply, handle_token(form, reply))

\* any other request to /oauth/token
TokenOther ==
    /\ Quiet
    /\ \E form \in OtherForms :
        Served("token", form, Unasked, handle_token(form, Unasked))

\* the response reaches the client
Deliver ==
    /\ Idle
    /\ last.op # "none"
    /\ last' = [op |-> "none"]
    /\ UNCHANGED <<now, ticks, env, minted, net, accepted, request_config, headers, stack, store>>

(***************************************************************************)
(* A tool call reaches the middleware in context c: a new request with     *)
(* headers from hs, or, inside a running call, a call made by the tool     *)
(* itself under the same request.  The middleware raises, or installs and  *)
(* awaits call_next.                                                       *)
(***************************************************************************)
CallTool(c, hs, depth) ==
    /\ Len(stack[c]) < depth
    /\ \E h \in (IF stack[c] = <<>> THEN hs ELSE {headers[c]}) :
      \E out \in {on_call_tool(h)} :
        LET invocation == out.invocations[1]
            frame == [install |-> invocation.install, config |-> invocation.config,
                      reset_token |-> request_config[c], at_entry |-> request_config[c]]
        IN  /\ accepted' = accepted \cup out.validated
            /\ IF out.raised # ""
               THEN /\ last' = [op |-> "call", context |-> c, what |-> "raised by middleware",
                                error |-> out.raised, headers |-> h, invoked |-> 0,
                                validated |-> out.validated]
                    /\ UNCHANGED <<request_config, headers, stack, store>>
               ELSE /\ last' = [op |-> "call", context |-> c, what |-> "call_next",
                                error |-> "", headers |-> h,
                                invoked |-> Len(out.invocations), frame |-> frame,
                                validated |-> out.validated]
                    /\ request_config' =
                           IF invocation.install
                           THEN ContextVarSet(request_config, c, invocation.config)
                           ELSE request_config
                    /\ headers' = [headers EXCEPT ![c] = h]
                    /\ stack' = [stack EXCEPT ![c] = Append(@, frame)]
    /\ UNCHANGED <<now, ticks, env, minted, net, store>>

\* call_next ends in context c: the finally block runs and the frame is left
Leave(c, how) ==
    /\ stack[c] # <<>>
    /\ LET frame == stack[c][Len(stack[c])]
       IN  /\ request_config' = after_call_next(request_config, c, frame, how)
           /\ last' = [op |-> "call", context |-> c, what |-> how, error |-> "",
                       headers |-> headers[c], invoked |-> 1, frame |-> frame]
    /\ stack' = [stack EXCEPT ![c] = SubSeq(@, 1, Len(@) - 1)]
    /\ headers' = IF Len(stack[c]) = 1 THEN [headers EXCEPT ![c] = NoHeaders] ELSE headers
    /\ UNCHANGED <<now, ticks, env, minted, net, accepted, store>>

\* a tool call arrives while the server is quiet
ToolCall == Quiet /\ CallTool(1, ToolCallHeaders, 1)

\* the tool returns its result
ToolReturns(c) == Leave(c, "returned")

\* the tool raises
ToolRaises(c) == Leave(c, "raised")

\* the call is cancelled while the tool runs: CancelledError at the await
ToolCancelled(c) == Leave(c, "cancelled")

(***************************************************************************)
(* Spec: the OAuth endpoints and the tool endpoint of one process, serving *)
(* one request at a time.                                                  *)
(***************************************************************************)
Next ==
    \/ Tick
    \/ Authorize
    \/ TokenExchange
    \/ TokenRefresh
    \/ TokenOther
    \/ Deliver
    \/ ToolCall
    \/ ToolReturns(1)

Spec == Init /\ [][Next]_vars

(***************************************************************************)
(* SpecCalls: tool calls running concurrently, each in its own context,    *)
(* in a process whose client has signed in at start (where the process can *)
(* sign): call_next may end in any order, and a running tool may call a    *)
(* tool itself.                                                            *)
(***************************************************************************)
FirstRequest ==
    [method |-> "POST",
     form |-> [daktela_url |-> UrlTenantA, username |-> <<" ", "u", "1">>,
               password |-> "password-1", redirect_uri |-> "https://client.example/cb",
               client_id |-> "client-1", code_challenge |-> s256_challenge(Verifier1),
               code_challenge_method |-> "S256", state |-> "st"],
     query_params |-> [client_id |-> "client-1", redirect_uri |-> "https://client.example/cb",
                       code_challenge |-> s256_challenge(Verifier1),
                       code_challenge_method |-> "S256", state |-> "st"]]

FirstReply ==
    [kind |-> "response", status |-> 200, body |-> "json",
     result |-> [accessToken |-> "session-1",
                 accessTokenExpirationDate |->
                     BackendDate(StartTime + BACKEND_SESSION_LIFETIME)]]

\* what the sign-in leaves behind: the authorization, then the exchange of its code
SignIn ==
    With(handle_authorize(FirstRequest, FirstReply),
         LAMBDA authorized :
            With(IF authorized.response.status # 302 THEN NoEffects
                 ELSE handle_token(TokenForm("authorization_code",
                                             authorized.response.location.code,
                                             Verifier1, "", Empty), Unasked),
                 LAMBDA exchanged :
                    [signed |-> {s.token : s \in authorized.signed \cup exchanged.signed},
                     logins |-> authorized.logins,
                     validated |-> authorized.validated]))

\* the access token of the sign-in
AccessTokens == {t \in minted : TypeOf(t) = "access_token"}

\* the requests that run concurrently: no credentials, the bearer token of
\* account A alone and with the headers of account B, a bearer value that is
\* no token, header credentials of account B of both kinds, and a URL the
\* validator rejects
ConcurrentHeaders ==
    {NoHeaders,
     HeaderDict(NoAuthorization, UrlTenantB, "", "", "header-token"),
     HeaderDict(NoAuthorization, UrlTenantB, "header-user", "header-password", ""),
     HeaderDict(NoAuthorization, UrlIpLiteral, "", "", "header-token"),
     HeaderDict([scheme |-> "Bearer ", credentials |-> Malformed], <<>>, "", "", "")}
    \cup
    {HeaderDict([scheme |-> "Bearer ", credentials |-> t], x[1], "", "", x[2]) :
        t \in AccessTokens,
        x \in {<<(<<>>), "">>, <<UrlTenantB, "header-token">>}}

InitCalls ==
    /\ now = StartTime
    /\ ticks = 0
    /\ env \in Environments
    /\ \E done \in {SignIn} :
        /\ minted = done.signed
        /\ net = done.logins
        /\ accepted = done.validated
    /\ last = [op |-> "none"]
    /\ request_config = [c \in Contexts |-> None]
    /\ headers = [c \in Contexts |-> NoHeaders]
    /\ stack = [c \in Contexts |-> <<>>]
    /\ store = <<>>

\* a tool call arrives in context c, or the tool running there calls a tool
Call(c) == CallTool(c, ConcurrentHeaders, MaxDepth)

NextCalls ==
    \E c \in Contexts :
        \/ Call(c)
        \/ ToolReturns(c)
        \/ ToolRaises(c)
        \/ ToolCancelled(c)

SpecCalls == InitCalls /\ [][NextCalls]_vars

(***************************************************************************)
(* SpecHeaders: tool calls that present no bearer token, with every        *)
(* combination of the four X-Daktela-* headers, one at a time.              *)
(***************************************************************************)
\* a tool call with headers but no bearer token arrives
HeaderCall ==
    /\ Quiet
    /\ CallTool(1, {h \in HeaderSets : ~("authorization" \in DOMAIN h
                                          /\ h["authorization"].scheme = "Bearer ")}, 1)

NextHeaders ==
    \/ HeaderCall
    \/ ToolReturns(1)
    \/ ToolRaises(1)
    \/ Deliver

SpecHeaders == Init /\ [][NextHeaders]_vars

(***************************************************************************)
(* oauth.py:44-99 OAuthGateMiddleware.  An ASGI scope has a type, a path   *)
(* and its headers as a list of pairs of byte strings, names lower-case.   *)
(* A byte string is the text it reads as UTF-8 (utf8), or, when it is not  *)
(* UTF-8, the text it begins with.  The value of an Authorization header   *)
(* is its scheme prefix and the rest, as in auth.py.                       *)
(***************************************************************************)
KeyAuthorization == <<"a", "u", "t", "h", "o", "r", "i", "z", "a", "t", "i", "o", "n">>

KeyHost == <<"h", "o", "s", "t">>

KeyForwardedProto ==
    <<"x", "-", "f", "o", "r", "w", "a", "r", "d", "e", "d", "-", "p", "r", "o", "t", "o">>

KeyForwardedHost ==
    <<"x", "-", "f", "o", "r", "w", "a", "r", "d", "e", "d", "-", "h", "o", "s", "t">>

XDaktelaPrefix == <<"x", "-", "d", "a", "k", "t", "e", "l", "a", "-">>

Bytes(text) == [utf8 |-> TRUE, text |-> text]

InvalidBytes(text) == [utf8 |-> FALSE, text |-> text]

\* bytes.decode(): UTF-8, strict
decode(bytes) == IF bytes.utf8 THEN Ok(bytes.text) ELSE Raise("UnicodeDecodeError")

\* dict(pairs): of the pairs with one key, the last one counts
dict(pairs) ==
    [k \in {pairs[i][1] : i \in 1..Len(pairs)} |->
        pairs[CHOOSE i \in 1..Len(pairs) :
                 pairs[i][1] = k /\ \A j \in (i + 1)..Len(pairs) : pairs[j][1] # k][2]]

RECURSIVE forwarded(_, _, _)
\* oauth.py:81-89: the scheme and host of the public URL, read off the
\* headers in their order
forwarded(pairs, scheme, host) ==
    IF pairs = <<>> THEN Ok([scheme |-> scheme, host |-> host])
    ELSE LET key == Head(pairs)[1]
             value == decode(Head(pairs)[2])
         IN  IF key = KeyForwardedProto
             THEN IF value.ok THEN forwarded(Tail(pairs), value.val, host) ELSE value
             ELSE IF key = KeyForwardedHost
             THEN IF value.ok THEN forwarded(Tail(pairs), scheme, value.val) ELSE value
             ELSE IF key = KeyHost /\ host = ""
             THEN IF value.ok THEN forwarded(Tail(pairs), scheme, value.val) ELSE value
             ELSE forwarded(Tail(pairs), scheme, host)

\* oauth.py:91-92
www_authenticate(scheme, host) ==
    "Bearer resource_metadata=\"" \o scheme \o "://" \o host
        \o "/.well-known/oauth-protected-resource\""

\* the gate awaits the downstream application and sends nothing itself
PassThrough == [invoked |-> 1, response |-> None, raised |-> ""]

\* oauth.py:58-99 OAuthGateMiddleware.__call__: how often it invokes the
\* downstream application, the response it sends itself, the exception
\* that leaves it
OAuthGateMiddleware(scope) ==
    IF scope.type # "http" THEN PassThrough
    ELSE IF Get(scope, "path", "") \notin {"/", "/mcp"} THEN PassThrough
    ELSE LET hdrs == dict(Get(scope, "headers", <<>>))
             auth == decode(Get(hdrs, KeyAuthorization, Bytes(NoAuthorization)))
             has_bearer == auth.val.scheme = "Bearer "
             has_daktela == \E key \in DOMAIN hdrs : startswith(key, XDaktelaPrefix)
             public == forwarded(Get(scope, "headers", <<>>), "https", "")
         IN  IF ~auth.ok THEN [invoked |-> 0, response |-> None, raised |-> auth.err]
             ELSE IF has_bearer \/ has_daktela THEN PassThrough
             ELSE IF ~public.ok THEN [invoked |-> 0, response |-> None, raised |-> public.err]
             ELSE [invoked |-> 0, raised |-> "",
                   response |-> [status |-> 401, content |-> "Unauthorized",
                                 headers |-> [WWW_Authenticate |->
                                     www_authenticate(public.val.scheme, public.val.host)]]]

(***************************************************************************)
(* The requests that reach the gate.                                       *)
(***************************************************************************)
\* the Authorization headers of a request: none, Basic, a bearer token, a
\* value that is not UTF-8, and two Authorization headers
GateAuthorizations ==
    {<<>>,
     <<Bytes([scheme |-> "Basic ", credentials |-> Malformed])>>,
     <<InvalidBytes([scheme |-> "Basic ", credentials |-> Malformed])>>,
     <<Bytes([scheme |-> "Bearer ", credentials |-> Malformed])>>,
     <<Bytes([scheme |-> "Bearer ", credentials |-> Malformed]),
       Bytes([scheme |-> "Basic ", credentials |-> Malformed])>>}
    \cup
    {<<Bytes([scheme |-> "Bearer ", credentials |-> t])>> : t \in minted}

\* the X-Daktela-* headers of a request
GateDaktelaHeaders ==
    {<<>>,
     << <<XDaktelaPrefix \o <<"u", "r", "l">>, Bytes(UrlTenantB)>> >>,
     << <<XDaktelaPrefix \o <<"x">>, Bytes("")>> >>}

\* what tells the public URL: the Host header alone, the headers of a
\* proxy before or after it, nothing
GateHostHeaders ==
    {<<>>,
     << <<KeyHost, Bytes("mcp.internal:8080")>> >>,
     << <<KeyHost, Bytes("mcp.internal:8080")>>,
        <<KeyForwardedProto, Bytes("http")>>,
        <<KeyForwardedHost, Bytes("mcp.example.com")>> >>,
     << <<KeyForwardedHost, Bytes("mcp.example.com")>>,
        <<KeyHost, Bytes("mcp.internal:8080")>> >>}

GatePaths ==
    {"/", "/mcp", "/mcp/", "/.well-known/oauth-protected-resource",
     "/.well-known/oauth-authorization-server", "/oauth/register", "/oauth/authorize",
     "/oauth/token"}

GateScopes ==
    {[type |-> type, path |-> path,
      headers |-> host \o [i \in 1..Len(auth) |-> <<KeyAuthorization, auth[i]>>] \o daktela] :
        type \in {"http"}, path \in GatePaths, auth \in GateAuthorizations,
        daktela \in GateDaktelaHeaders, host \in GateHostHeaders}
    \cup
    {[type |-> "websocket", path |-> "/mcp", headers |-> <<>>],
     [type |-> "lifespan"]}

\* a request reaches the ASGI application
Gate ==
    /\ Quiet
    /\ \E scope \in GateScopes :
        \E out \in {OAuthGateMiddleware(scope)} :
            last' = [op |-> "gate", scope |-> scope, invoked |-> out.invoked,
                     response |-> out.response, raised |-> out.raised]
    /\ UNCHANGED <<now, ticks, env, minted, net, accepted, request_config, headers, stack, store>>

(***************************************************************************)
(* SpecGate: the requests at the gate of a process whose client has signed *)
(* in at start, while time passes.                                         *)
(***************************************************************************)
NextGate ==
    \/ Tick
    \/ Gate
    \/ Deliver

SpecGate == InitCalls /\ [][NextGate]_vars

(***************************************************************************)
(* Properties of the credential slot.                                      *)
(***************************************************************************)
Ended == {"returned", "raised", "cancelled"}

\* C1: when an invocation of on_call_tool that installed a config has ended,
\* because call_next returned, raised or was cancelled, the slot of its
\* context holds again the value it held when the invocation began; that is
\* None when the invocation was the outermost one of its context.
C1_SlotRestoredOnEveryExit ==
    (last.op = "call" /\ last.what \in Ended /\ last.frame.install)
        => /\ request_config[last.context] = last.frame.at_entry
           /\ stack[last.context] = <<>> => request_config[last.context] = None

\* a call that had installed a config was cancelled while another context
\* is still inside its own call, and the slot is empty again
C1_Witness ==
    /\ last.op = "call" /\ last.what = "cancelled" /\ last.frame.install
    /\ stack[last.context] = <<>>
    /\ request_config[last.context] = None
    /\ \E c \in Contexts : stack[c] # <<>> /\ request_config[c] # None

\* what the middleware invocation serving the request of context c installs
Installs(c) ==
    With(on_call_tool(headers[c]).invocations[1],
         LAMBDA invocation : IF invocation.install THEN invocation.config ELSE None)

\* C2: however concurrent tool calls interleave, the slot read in a context
\* (and so get_config called there) gives the config that the middleware
\* installed for the request this context serves, never the config of a
\* call in another context, and in a context that runs no call the slot
\* reads None.
C2_EachCallSeesItsOwnConfig ==
    \A c \in Contexts :
        IF stack[c] = <<>> THEN request_config[c] = None
        ELSE /\ request_config[c] = Installs(c)
             /\ Installs(c) # None => get_config(c) = Ok(Installs(c))

\* a call with the bearer token of account A and a call with header
\* credentials of account B run at the same time, each with its own config
C2_Witness ==
    \E a, b \in Contexts :
        /\ a # b
        /\ stack[a] # <<>> /\ "authorization" \in DOMAIN headers[a]
        /\ stack[b] # <<>> /\ "authorization" \notin DOMAIN headers[b]
        /\ request_config[a] = [url |-> "https://a.daktela.com", token |-> "session-1"]
        /\ request_config[b] = [url |-> "https://b.daktela.com", token |-> "header-token"]
        /\ get_config(a) = Ok(request_config[a])
        /\ get_config(b) = Ok(request_config[b])

(***************************************************************************)
(* Properties of the middleware's choice of credentials.  They read the    *)
(* decision the middleware has just taken: last is its event.              *)
(***************************************************************************)
\* the middleware has just decided a call: it raised, or it awaits call_next
Decided == last.op = "call" /\ last.what \in {"raised by middleware", "call_next"}

HasBearer(h) == "authorization" \in DOMAIN h /\ h["authorization"].scheme = "Bearer "

XDaktelaHeaders ==
    {"x-daktela-url", "x-daktela-username", "x-daktela-password", "x-daktela-access-token"}

Claims(t) == json_loads(t.body)

\* the token is one the process signed: three segments, HS256, its signature
Verifies(t) ==
    /\ env.JWT_SECRET # ""
    /\ t.seg = 3 /\ t.alg = "HS256"
    /\ t.sig = hmac(env.JWT_SECRET, "HS256", t.body)

\* the token is usable as a bearer access token
GoodAccessToken(t) ==
    /\ Verifies(t)
    /\ "exp" \in DOMAIN Claims(t) /\ Claims(t).exp > now
    /\ Get(Claims(t), "type", "") = "access_token"
    /\ Get(Claims(t), "daktela_url", "") # ""
    /\ Get(Claims(t), "daktela_access_token", "") # ""

\* the token is malformed, expired, of another type or without the url and
\* token claims, or the process has a key and the signature is not under it
Defective(t) ==
    \/ t.seg # 3
    \/ "exp" \in DOMAIN Claims(t) /\ Claims(t).exp <= now
    \/ Get(Claims(t), "type", "") # "access_token"
    \/ Get(Claims(t), "daktela_url", "") = ""
    \/ Get(Claims(t), "daktela_access_token", "") = ""
    \/ env.JWT_SECRET # "" /\ ~Verifies(t)

\* C3: a tool call whose Authorization header starts with "Bearer " and
\* whose token is expired, wrongly signed, malformed, of another type or
\* without the url/token claims is answered by an error of the middleware:
\* call_next is not invoked and the slot stays empty, whatever X-Daktela-*
\* headers and static credentials there are.
C3_BadBearerRaises ==
    (Decided /\ HasBearer(last.headers)
        /\ Defective(last.headers["authorization"].credentials))
        => /\ last.what = "raised by middleware"
           /\ last.invoked = 0
           /\ request_config[last.context] = None

\* C4: a tool call with a bearer access token that decodes and with
\* X-Daktela-* headers runs call_next exactly once, with the slot holding
\* exactly the url and token of the bearer token's claims; the header values
\* are neither validated nor used.
C4_BearerTakesPrecedence ==
    (Decided /\ HasBearer(last.headers)
        /\ GoodAccessToken(last.headers["authorization"].credentials)
        /\ DOMAIN last.headers \cap XDaktelaHeaders # {})
        => LET claims == Claims(last.headers["authorization"].credentials)
               config == [url |-> claims.daktela_url, token |-> claims.daktela_access_token]
           IN  /\ last.what = "call_next"
               /\ last.invoked = 1
               /\ last.frame.install /\ last.frame.config = config
               /\ request_config[last.context] = config
               /\ get_config(last.context) = Ok(config)
               /\ last.validated = {}

\* a call with a valid bearer token of account A and the header credentials
\* of account B is running with the config of account A
C4_Witness ==
    /\ Decided /\ HasBearer(last.headers)
    /\ GoodAccessToken(last.headers["authorization"].credentials)
    /\ "x-daktela-url" \in DOMAIN last.headers
    /\ "x-daktela-access-token" \in DOMAIN last.headers
    /\ last.what = "call_next"
    /\ request_config[last.context] = [url |-> "https://a.daktela.com", token |-> "session-1"]

\* C5: in a process without JWT_SECRET, a tool call that presents an
\* Authorization: Bearer value is answered by an error of the middleware; it
\* does not go on to call_next with header credentials or with no config.
C5_BearerWithoutSecretRaises ==
    (Decided /\ HasBearer(last.headers) /\ env.JWT_SECRET = "")
        => last.what = "raised by middleware"

(***************************************************************************)
(* Properties of the URLs the process uses.                                *)
(***************************************************************************)
\* C6: every backend login sent by the authorization endpoint or by the
\* refresh grant goes to a URL that _validate_url has returned before, and
\* so does every config in a credential slot: no login is sent to, and no
\* config is installed for, a URL the validator rejected or never saw.
C6_OnlyValidatedUrls ==
    /\ \A login \in net : login.url \in accepted
    /\ \A c \in Contexts : request_config[c] # None => request_config[c].url \in accepted
    /\ last.op \in {"authorize", "token"} => \A login \in last.logins : login.url \in accepted

\* the refresh grant has logged in to the backend and a call runs with a
\* config taken from validated X-Daktela-* headers
C6_Witness ==
    /\ \E login \in net : login.by = "refresh"
    /\ \E login \in net : login.by = "authorize"
    /\ Decided /\ last.what = "call_next" /\ ~HasBearer(last.headers)
    /\ request_config[last.context] # None
    /\ request_config[last.context].url = "https://b.daktela.com"
    /\ last.validated = {"https://b.daktela.com"}

(***************************************************************************)
(* Properties of the token codec and of the grants.  They read the         *)
(* response the token endpoint has just given: last is its request, its    *)
(* response and the tokens it signed.                                      *)
(***************************************************************************)
TokenTypes == {"auth_code", "access_token", "refresh_token"}

\* the token endpoint has just answered an authorization_code grant
Exchanged ==
    /\ last.op = "token" /\ last.request.readable
    /\ last.request.grant_type = "authorization_code"

\* the token endpoint has just answered a refresh_token grant
Refreshed ==
    /\ last.op = "token" /\ last.request.readable
    /\ last.request.grant_type = "refresh_token"

\* the response carries no token and none was signed for it
NoTokens ==
    /\ last.response.status # 200
    /\ last.response.access_token = Empty /\ last.response.refresh_token = Empty
    /\ last.signed = {}

\* the response is a token pair
TokenPair ==
    /\ last.response.status = 200
    /\ last.response.access_token # Empty /\ last.response.refresh_token # Empty
    /\ {s.token : s \in last.signed} = {last.response.access_token, last.response.refresh_token}

\* C7: a token signed from claims of type t with an exp in the future
\* decodes, when type t is expected, to exactly those claims, and fails to
\* decode when any other type is expected; so the middleware takes no
\* authorization code or refresh token as a bearer access token, and the
\* grants of the token endpoint take no token of another type than theirs.
C7_TypedRoundTrip ==
    /\ last.op \in {"authorize", "token"} =>
         \A s \in last.signed :
            s.claims.exp > now =>
               /\ decode_jwt(s.token, s.claims.type) = Ok(s.claims)
               /\ \A other \in TokenTypes \ {s.claims.type} : ~decode_jwt(s.token, other).ok
    /\ \A t \in minted :
         Claims(t).exp > now =>
            \A expected \in TokenTypes : decode_jwt(t, expected).ok <=> expected = TypeOf(t)
    /\ (Decided /\ HasBearer(last.headers)
           /\ Verifies(last.headers["authorization"].credentials)
           /\ TypeOf(last.headers["authorization"].credentials) # "access_token")
         => last.what = "raised by middleware" /\ request_config[last.context] = None
    /\ (Exchanged /\ Verifies(last.request.code) /\ TypeOf(last.request.code) # "auth_code")
         => NoTokens
    /\ (Refreshed /\ Verifies(last.request.refresh_token)
           /\ TypeOf(last.request.refresh_token) # "refresh_token")
         => NoTokens /\ last.logins = {}

\* an exchange has just signed an access and a refresh token, and each
\* decodes to its claims under its own type only
C7_Witness ==
    /\ Exchanged /\ TokenPair
    /\ {s.claims.type : s \in last.signed} = {"access_token", "refresh_token"}
    /\ \A s \in last.signed :
          /\ s.claims.exp > now
          /\ decode_jwt(s.token, s.claims.type) = Ok(s.claims)
          /\ ~decode_jwt(s.token, "auth_code").ok

\* the token carries an exp that is earlier than the clock
Expired(t) == "exp" \in DOMAIN Claims(t) /\ Claims(t).exp < now

\* C8: no operation that consumes a token succeeds with one whose exp is
\* earlier than the current time, be its signature valid or not: _decode_jwt
\* fails for it under every expected type, the bearer decoding of the
\* middleware yields no config from it, and both grants refuse it.
C8_ExpiredNeverAccepted ==
    /\ \A t \in Presentable :
         Expired(t) =>
            /\ \A expected \in TokenTypes : ~decode_jwt(t, expected).ok
            /\ LET config == decode_bearer_token([scheme |-> "Bearer ", credentials |-> t])
               IN  ~config.ok \/ config.val = None
    /\ (Decided /\ HasBearer(last.headers)
           /\ Expired(last.headers["authorization"].credentials))
         => /\ env.JWT_SECRET # "" => last.what = "raised by middleware"
            /\ last.what = "call_next" =>
                  ~(last.frame.install /\ "token" \in DOMAIN last.frame.config
                       /\ last.frame.config.token =
                            Get(Claims(last.headers["authorization"].credentials),
                                "daktela_access_token", ""))
    /\ (Exchanged /\ Expired(last.request.code)) => NoTokens
    /\ (Refreshed /\ Expired(last.request.refresh_token)) => NoTokens /\ last.logins = {}

\* an authorization code the process signed is exchanged after its exp and
\* is refused as expired
C8_Witness ==
    /\ Exchanged /\ Verifies(last.request.code) /\ Expired(last.request.code)
    /\ TypeOf(last.request.code) = "auth_code"
    /\ last.request.code_verifier = Verifier1
    /\ last.response.status = 400 /\ last.response.error = "invalid_grant"
    /\ last.response.error_description = "ExpiredSignatureError"

\* the code is an authorization code the process signed, not yet expired
ValidCode(t) ==
    /\ Verifies(t) /\ TypeOf(t) = "auth_code"
    /\ Claims(t).exp > now

\* C9: for a valid, unexpired authorization code, sent with no redirect_uri
\* or with the one it stores, and any non-empty code_verifier, the token
\* endpoint answers 200 with a token pair if the S256 digest of the verifier
\* is the code_challenge stored in the code, and otherwise 400 invalid_grant
\* with the PKCE description and no tokens.
C9_PkceDecidesTheExchange ==
    (Exchanged /\ ValidCode(last.request.code) /\ last.request.code_verifier # <<>>
        /\ last.request.redirect_uri \in {"", Claims(last.request.code).redirect_uri})
        => IF s256_challenge(last.request.code_verifier) = Claims(last.request.code).code_challenge
           THEN TokenPair
           ELSE /\ last.response.status = 400
                /\ last.response.error = "invalid_grant"
                /\ last.response.error_description = "PKCE verification failed"
                /\ NoTokens

\* C10: in an exchange of a valid code with the right verifier, a
\* redirect_uri that is sent and differs from the one stored in the code is
\* answered 400 invalid_grant without tokens, and an exchange that sends no
\* redirect_uri is answered with a token pair: the stored one is not compared.
C10_RedirectUriBinding ==
    (Exchanged /\ ValidCode(last.request.code)
        /\ encode_ascii(last.request.code_verifier).ok
        /\ s256_challenge(last.request.code_verifier) = Claims(last.request.code).code_challenge)
        => IF last.request.redirect_uri = "" THEN TokenPair
           ELSE IF last.request.redirect_uri # Claims(last.request.code).redirect_uri
           THEN /\ last.response.status = 400
                /\ last.response.error = "invalid_grant"
                /\ NoTokens
           ELSE TokenPair

\* a valid code with the right verifier is sent with another redirect_uri
\* than the one it stores, and is refused
C10_Witness ==
    /\ Exchanged /\ ValidCode(last.request.code)
    /\ last.request.code_verifier = Verifier1
    /\ last.request.redirect_uri = "https://other.example/cb"
    /\ Claims(last.request.code).redirect_uri = "https://client.example/cb"
    /\ last.response.status = 400
    /\ last.response.error_description = "redirect_uri mismatch"
    /\ last.signed = {}

(***************************************************************************)
(* Properties of the authorization endpoint.  They read the response it    *)
(* has just given: last is the request, the response, the code it signed   *)
(* and the login it sent.                                                  *)
(***************************************************************************)
\* the authorization endpoint has just answered a submitted form
Submitted == last.op = "authorize" /\ last.request.method = "POST"

\* C11: a submitted form is answered with a 302 carrying an authorization
\* code only if its redirect_uri was non-empty, its method S256, its URL
\* accepted by the validator and the login, sent to the validated URL,
\* returned a session token; every other submission signs no code, sends no
\* login when one of the checks before the login failed, and is answered
\* with the form again, showing the error, the entered URL and user name,
\* and no password.
C11_CodeOnlyAfterLogin ==
    Submitted =>
        LET form == last.request.form
            checked == validate_url(form.daktela_url)
            entered == strip(form.daktela_url)
        IN  IF last.response.status = 302
            THEN /\ form.redirect_uri # ""
                 /\ form.code_challenge_method = "S256"
                 /\ checked.ok
                 /\ last.logins = {[url |-> checked.val, username |-> Text(strip(form.username)),
                                    password |-> form.password, by |-> "authorize"]}
                 /\ \E s \in last.signed :
                       /\ last.signed = {s}
                       /\ s.token = last.response.location.code
                       /\ s.claims.type = "auth_code"
                       /\ s.claims.daktela_access_token # ""
            ELSE /\ last.signed = {}
                 /\ (form.redirect_uri = "" \/ form.code_challenge_method # "S256" \/ ~checked.ok)
                       => last.logins = {}
                 /\ last.response.status = 200
                 /\ last.response.kind = "form"
                 /\ last.response.error # ""
                 /\ last.response.daktela_url \in {Text(entered), Text(rstrip(entered, {"/"}))}
                 /\ last.response.username = Text(strip(form.username))
                 /\ last.response.password = ""

(***************************************************************************)
(* Properties of the refresh grant.  last.reply is what the backend did    *)
(* with the login the grant sent.                                          *)
(***************************************************************************)
\* the backend has answered the login with a session token
LoginSucceeded(reply) ==
    /\ reply.kind = "response" /\ reply.status = 200 /\ reply.body = "json"
    /\ Get(reply.result, "accessToken", "") # ""

\* the three classified reasons of a failed login
LoginReasons ==
    {"Could not connect to Daktela instance", "Invalid username or password",
     "Unexpected response from Daktela API"}

\* C12: a refresh grant answers with a token pair only if it has sent, in
\* this request, a login with the URL, user name and password of the refresh
\* token, the login succeeded, and the new access token carries the session
\* token that login returned; when the login it sent fails, the answer is
\* 400 invalid_grant with the classified reason and no token is signed.
C12_RefreshLogsInAgain ==
    Refreshed =>
        /\ TokenPair =>
              LET embedded == Claims(last.request.refresh_token)
              IN  /\ last.logins = {[url |-> embedded.daktela_url,
                                     username |-> embedded.daktela_username,
                                     password |-> embedded.daktela_password,
                                     by |-> "refresh"]}
                  /\ LoginSucceeded(last.reply)
                  /\ \E s \in last.signed :
                        /\ s.token = last.response.access_token
                        /\ s.claims.type = "access_token"
                        /\ s.claims.daktela_access_token = last.reply.result.accessToken
        /\ (last.logins # {} /\ ~LoginSucceeded(last.reply)) =>
              /\ last.response.status = 400
              /\ last.response.error = "invalid_grant"
              /\ last.response.error_description \in LoginReasons
              /\ NoTokens

(***************************************************************************)
(* Properties of the tokens the token endpoint issues.                     *)
(***************************************************************************)
\* the claims of an access token
AccessTokenClaims == {"type", "daktela_url", "daktela_access_token", "exp"}

\* the claims that hold the credentials of the end user
CredentialClaims == {"daktela_username", "daktela_password"}

\* the token endpoint has just answered
Answered == last.op = "token"

\* C13: every access token the token endpoint issues, by either grant, has
\* the claims type, daktela_url, daktela_access_token and exp and no other,
\* and none of the three texts is the user name or the password that the
\* refresh token of the same response carries; user name and password are
\* claims of authorization codes and refresh tokens only.
C13_AccessTokenWithoutCredentials ==
    /\ Answered =>
          \A s \in last.signed :
             s.claims.type = "access_token" =>
                /\ s.token = last.response.access_token
                /\ DOMAIN Claims(s.token) = AccessTokenClaims
                /\ \A r \in last.signed :
                      r.claims.type = "refresh_token" =>
                         \A k \in AccessTokenClaims \ {"exp"} :
                            Claims(s.token)[k] \notin {r.claims.daktela_username,
                                                       r.claims.daktela_password}
    /\ \A t \in minted :
          DOMAIN Claims(t) \cap CredentialClaims # {} => TypeOf(t) \in {"auth_code", "refresh_token"}

\* both grants have issued an access token: the exchange of a code, and a
\* refresh, each next to a refresh token that carries user name and password
C13_Witness ==
    /\ Refreshed /\ TokenPair
    /\ DOMAIN Claims(last.response.access_token) = AccessTokenClaims
    /\ Claims(last.response.refresh_token).daktela_password = "password-1"
    /\ Claims(last.request.refresh_token).daktela_password = "password-1"
    /\ \E login \in net : login.by = "authorize"

\* the backend session whose token the login reply carries ends at this
\* instant; a reply without a readable date does not say when
SessionEnd(reply) ==
    IF "accessTokenExpirationDate" \in DOMAIN reply.result
          /\ reply.result.accessTokenExpirationDate.wellformed
    THEN BackendInstant(reply.result.accessTokenExpirationDate)
    ELSE now + FALLBACK_ACCESS_LIFETIME

\* C14: the exp of an access token the token endpoint issues is the expiry
\* of the backend session it carries: on an exchange the daktela_access_exp
\* of the authorization code, so that exchanging a code again gives the same
\* exp, and on a refresh the instant at which the session of the re-login
\* ends (an hour from now when the backend gives no date); no access token
\* has an exp after the end of its backend session.
C14_ExpMirrorsBackendSession ==
    /\ (Exchanged /\ TokenPair) =>
          Claims(last.response.access_token).exp = Claims(last.request.code).daktela_access_exp
    /\ (Refreshed /\ TokenPair) =>
          /\ Claims(last.response.access_token).exp = SessionEnd(last.reply)
          /\ Claims(last.response.access_token).exp <= SessionEnd(last.reply)

\* the token endpoint has just answered with status 200
Succeeded == Answered /\ last.response.status = 200

EXPIRES_IN_BUFFER == 600
EXPIRES_IN_TOLERANCE == 5

\* C16: the token endpoint reports expires_in ten minutes early: for an
\* access token whose exp is E seconds after the current time, expires_in
\* is E - 600, give or take a few seconds, and not the full E.
C16_ExpiresInTenMinutesEarly ==
    (Succeeded /\ Claims(last.response.access_token).exp - now >= EXPIRES_IN_BUFFER) =>
        LET E == Claims(last.response.access_token).exp - now
        IN  /\ last.response.expires_in <= E - EXPIRES_IN_BUFFER + EXPIRES_IN_TOLERANCE
            /\ last.response.expires_in >= E - EXPIRES_IN_BUFFER - EXPIRES_IN_TOLERANCE

(***************************************************************************)
(* Properties of the gate.  They read what the gate has just done with a   *)
(* request: last is the scope, how often the downstream application was    *)
(* invoked, the response of the gate itself and the exception it raised.   *)
(***************************************************************************)
\* the gate has just handled an HTTP request
Gated == last.op = "gate" /\ last.scope.type = "http"

\* the paths of the tool endpoint
ToolPaths == {"/", "/mcp"}

\* the request carries an Authorization value that starts with "Bearer "
CarriesBearer(scope) ==
    \E i \in 1..Len(scope.headers) :
        /\ scope.headers[i][1] = KeyAuthorization
        /\ scope.headers[i][2].text.scheme = "Bearer "

\* the request carries a header whose name starts with x-daktela-
CarriesDaktela(scope) ==
    \E i \in 1..Len(scope.headers) : startswith(scope.headers[i][1], XDaktelaPrefix)

\* the text of the header of that name, or the default when there is none
HeaderText(scope, key, default) ==
    IF \E i \in 1..Len(scope.headers) : scope.headers[i][1] = key
    THEN scope.headers[CHOOSE i \in 1..Len(scope.headers) : scope.headers[i][1] = key][2].text
    ELSE default

\* the challenge that points at the resource metadata of the public URL:
\* the forwarded scheme, https when none is forwarded, and the forwarded
\* host, the Host header when none is forwarded
Challenge(scope) ==
    "Bearer resource_metadata=\""
        \o HeaderText(scope, KeyForwardedProto, "https") \o "://"
        \o HeaderText(scope, KeyForwardedHost, HeaderText(scope, KeyHost, ""))
        \o "/.well-known/oauth-protected-resource\""

\* C17: an HTTP request to "/" or "/mcp" that carries an Authorization
\* value starting with "Bearer " or any x-daktela-* header makes the gate
\* invoke the downstream application exactly once and send nothing of its
\* own; any other request to these paths is answered by the gate with 401
\* and a WWW-Authenticate header that points at the resource metadata of the
\* forwarded scheme and host, and downstream is not invoked; a request to
\* any other path passes through.
C17_GatePassesOrChallenges ==
    Gated =>
        IF last.scope.path \in ToolPaths
        THEN IF CarriesBearer(last.scope) \/ CarriesDaktela(last.scope)
             THEN last.invoked = 1 /\ last.response = None /\ last.raised = ""
             ELSE /\ last.invoked = 0 /\ last.raised = ""
                  /\ last.response # None
                  /\ last.response.status = 401
                  /\ last.response.headers.WWW_Authenticate = Challenge(last.scope)
        ELSE last.invoked = 1 /\ last.response = None /\ last.raised = ""

\* the bearer token of the request, when it carries one Authorization header
BearerOf(scope) == HeaderText(scope, KeyAuthorization, NoAuthorization).credentials

\* C18: the gate validates bearer tokens: a request to /mcp whose bearer
\* access token is expired is answered by the gate with 401 and a
\* WWW-Authenticate header, and the downstream application is not invoked.
C18_GateRejectsExpiredBearer ==
    (Gated /\ last.scope.path = "/mcp" /\ CarriesBearer(last.scope)
        /\ Get(Claims(BearerOf(last.scope)), "type", "") = "access_token"
        /\ Expired(BearerOf(last.scope)))
        => /\ last.invoked = 0
           /\ last.response # None
           /\ last.response.status = 401
           /\ last.response.headers.WWW_Authenticate = Challenge(last.scope)

(***************************************************************************)
(* Properties of get_config.                                               *)
(***************************************************************************)
\* the process serves HTTP
HttpMode == env.MCP_TRANSPORT = "streamable-http"

\* the config is made of the static credentials of the process environment
IsStatic(config) ==
    /\ env.DAKTELA_URL # <<>>
    /\ config.url = Text(rstrip(env.DAKTELA_URL, {"/"}))
    /\ \/ "token" \in DOMAIN config /\ config.token = env.DAKTELA_ACCESS_TOKEN
       \/ "username" \in DOMAIN config /\ config.username = env.DAKTELA_USERNAME

\* C19: get_config gives the config of the credential slot whenever the
\* slot is set, whatever the DAKTELA_* variables of the environment hold;
\* with the slot unset and MCP_TRANSPORT streamable-http it raises
\* ValueError; so in HTTP mode every config it gives is the one installed
\* for the request and never the static credentials of the process.
C19_NoStaticCredentialsOverHttp ==
    \A c \in Contexts :
        /\ request_config[c] # None => get_config(c) = Ok(request_config[c])
        /\ (request_config[c] = None /\ HttpMode) =>
              /\ ~get_config(c).ok
              /\ get_config(c).err = "Daktela credentials must be provided via HTTP headers"
        /\ (HttpMode /\ get_config(c).ok) =>
              /\ stack[c] # <<>>
              /\ get_config(c).val = Installs(c)
              /\ ~IsStatic(get_config(c).val)

\* a process that serves HTTP has static credentials in its environment: a
\* call without credentials runs and get_config fails for it, while a call
\* with header credentials runs next to it and gets its own config
C19_Witness ==
    /\ HttpMode /\ env.DAKTELA_URL # <<>> /\ env.DAKTELA_ACCESS_TOKEN # ""
    /\ \E a, b \in Contexts :
          /\ stack[a] # <<>> /\ request_config[a] = None /\ ~get_config(a).ok
          /\ stack[b] # <<>> /\ request_config[b] # None
          /\ get_config(b) = Ok([url |-> "https://b.daktela.com", token |-> "header-token"])

(***************************************************************************)
(* Properties of the header credentials.                                   *)
(***************************************************************************)
\* the middleware has let the call through to call_next, once, with this
\* config installed in the slot (None: nothing installed, the slot unset)
RunsWith(config) ==
    /\ last.what = "call_next" /\ last.invoked = 1
    /\ last.frame.install = (config # None)
    /\ last.frame.install => last.frame.config = config
    /\ request_config[last.context] = config

\* the middleware has raised this error: call_next is not invoked and the
\* slot stays unset
FailsWith(errors) ==
    /\ last.what = "raised by middleware" /\ last.error \in errors
    /\ last.invoked = 0
    /\ request_config[last.context] = None

\* the errors of the header path: the two of the middleware, and the
\* validator's
HeaderErrors ==
    {"X-Daktela-Url header is required",
     "Either X-Daktela-Username + X-Daktela-Password or X-Daktela-Access-Token header is required"}

UrlErrors ==
    {"Invalid IPv6 URL", "must use HTTPS", "has no hostname",
     "must use a domain name, not an IP address", "is not allowed"}

\* C20: for a tool call without a bearer token and every combination of the
\* four X-Daktela-* headers: with none of them, call_next runs with the slot
\* unset; with a valid URL, a user name and a password, it runs with
\* {url, username, password}; with a valid URL and an access token but not
\* both user name and password, it runs with {url, token}; in every other
\* combination the middleware raises an error that names what is wrong,
\* call_next is not invoked and the slot is not set.
C20_HeaderCombinations ==
    (Decided /\ ~HasBearer(last.headers)) =>
        LET url == Get(last.headers, "x-daktela-url", <<>>)
            username == Get(last.headers, "x-daktela-username", "")
            password == Get(last.headers, "x-daktela-password", "")
            token == Get(last.headers, "x-daktela-access-token", "")
            checked == validate_url(url)
        IN  IF url = <<>> /\ username = "" /\ password = "" /\ token = ""
            THEN RunsWith(None)
            ELSE IF url = <<>> THEN FailsWith({"X-Daktela-Url header is required"})
            ELSE IF ~checked.ok THEN FailsWith(UrlErrors) /\ last.error = checked.err
            ELSE IF username # "" /\ password # ""
            THEN RunsWith([url |-> checked.val, username |-> username, password |-> password])
            ELSE IF token # ""
            THEN RunsWith([url |-> checked.val, token |-> token])
            ELSE FailsWith(HeaderErrors \ {"X-Daktela-Url header is required"})

\* a call with a valid URL, a user name, a password and an access token
\* runs with the user name and the password
C20_Witness ==
    /\ Decided /\ ~HasBearer(last.headers)
    /\ DOMAIN last.headers = XDaktelaHeaders
    /\ RunsWith([url |-> "https://b.daktela.com", username |-> "header-user",
                 password |-> "header-password"])

(***************************************************************************)
(* Properties of the backend login.                                        *)
(***************************************************************************)
\* an endpoint has just answered a request in which it sent a login
LoggedIn == last.op \in {"authorize", "token"} /\ last.logins # {}

\* C21: whatever the backend does with a login (no connection, a status
\* other than 200, a 200 without access token, a 200 whose body is not JSON
\* or not an object), _daktela_login returns a result with a non-empty
\* session token or one of the three classified reasons and does not raise;
\* so in a process that can sign, the authorization endpoint answers with a
\* form or a redirect and the refresh grant with a token pair or 400
\* invalid_grant.
C21_LoginNeverRaises ==
    LoggedIn =>
        /\ \A login \in last.logins :
              LET result == daktela_login(login.url, login.username, login.password,
                                          last.reply)
              IN  /\ result.ok
                  /\ IF result.val.is_str THEN result.val.text \in LoginReasons
                     ELSE result.val.result.accessToken # ""
        /\ (Submitted /\ env.JWT_SECRET # "") => last.response.status \in {200, 302}
        /\ Refreshed =>
              \/ TokenPair
              \/ last.response.status = 400 /\ last.response.error = "invalid_grant"

(***************************************************************************)
(* SpecUrl: the URL validator alone.  A process starts with one of the      *)
(* allowed-domain settings and is handed candidate backend URLs, each made  *)
(* of a scheme, optional user info, a host, an optional port and a tail.    *)
(***************************************************************************)
\* the candidate URLs, each put together from its parts
UrlInputs ==
    LET
        \* https, http, upper-case https, ftp and no scheme at all
        UrlSchemes ==
            {<<"h", "t", "t", "p", "s", ":", "/", "/">>,
             <<"h", "t", "t", "p", ":", "/", "/">>,
             <<"H", "T", "T", "P", "S", ":", "/", "/">>,
             <<"f", "t", "p", ":", "/", "/">>,
             <<>>}
        \* no user info, or "u:p@"
        UrlUserInfos ==
            {<<>>,
             <<"u", ":", "p", "@">>}
        \* tenants, the bare domain, a look-alike, a foreign domain, IPv4 and IPv6
        \* literals, an unclosed bracket and no host
        UrlHosts ==
            {<<"a", ".", "d", "a", "k", "t", "e", "l", "a", ".", "c", "o", "m">>,
             <<"d", "a", "k", "t", "e", "l", "a", ".", "c", "o", "m">>,
             <<"n", "o", "t", "d", "a", "k", "t", "e", "l", "a", ".", "c", "o", "m">>,
             <<"A", ".", "D", "a", "k", "t", "e", "l", "a", ".", "C", "O", "M">>,
             <<"e", "x", "a", "m", "p", "l", "e", ".", "o", "r", "g">>,
             <<"1", "0", ".", "0", ".", "0", ".", "1">>,
             <<"1", "2", "7", ".", "0", ".", "0", ".", "1">>,
             <<"1", "6", "9", ".", "2", "5", "4", ".", "1", "6", "9", ".", "2", "5", "4">>,
             <<"[", ":", ":", "1", "]">>,
             <<"[", ":", ":", "1">>,
             <<>>}
        \* no port, or ":8443"
        UrlPorts ==
            {<<>>,
             <<":", "8", "4", "4", "3">>}
        \* nothing, trailing slashes, a path, a query and a fragment
        UrlTails ==
            {<<>>,
             <<"/">>,
             <<"/", "a", "p", "i", "/", "/">>,
             <<"/", "a", "p", "i", "?", "q", "=", "1">>,
             <<"#", "f">>}
        \* surrounding whitespace
        UrlPads ==
            {<<>>,
             <<" ">>}
    IN  {pad \o scheme \o user \o host \o port \o tail \o pad :
            pad \in UrlPads, scheme \in UrlSchemes, user \in UrlUserInfos,
            host \in UrlHosts, port \in UrlPorts, tail \in UrlTails}

\* ALLOWED_DAKTELA_DOMAINS unset, and set to lists that name IP addresses
AllowedDomainSettings ==
    {<<>>,
     <<"1", "0", ".", "0", ".", "0", ".", "1", ",", " ", "1", "2", "7", ".", "0", ".", "0", ".", "1", ",", "1", "6", "9", ".", "2", "5", "4", ".", "1", "6", "9", ".", "2", "5", "4", " ", ",", " ", ":", ":", "1", ",", " ", "[", ":", ":", "1", "]">>,
     <<" ", "E", "x", "a", "m", "p", "l", "e", ".", "O", "R", "G", " ", ",", ",", " ", "d", "a", "k", "t", "e", "l", "a", ".", "c", "o", "m">>}

UrlEnvironments ==
    {[e EXCEPT !.ALLOWED_DAKTELA_DOMAINS = setting] :
        e \in Environments, setting \in AllowedDomainSettings}

\* auth.py:62: the allowed domains as the allow-list error names them
allowed_str == [i \in 1..Len(get_allowed_domains) |-> <<"*", ".">> \o get_allowed_domains[i]]

\* auth.py:43-66: the text of the ValueError that _validate_url raises, as
\* the fixed words of its rule followed by the values formatted into it
error_message(raw) ==
    With(<<validate_url(raw), rstrip(strip(raw), {"/"})>>,
         LAMBDA r :
            IF r[1].err = "must use HTTPS"
            THEN <<"X-Daktela-Url must use HTTPS (got '')",
                   IF urlparse(r[2]).val.scheme = <<>> THEN <<"e", "m", "p", "t", "y">>
                   ELSE urlparse(r[2]).val.scheme>>
            ELSE IF r[1].err = "is not allowed"
            THEN <<"X-Daktela-Url hostname '' is not allowed. Allowed domains: ",
                   urlparse(r[2]).val.hostname, allowed_str>>
            ELSE IF r[1].err = "has no hostname" THEN <<"X-Daktela-Url has no hostname">>
            ELSE IF r[1].err = "must use a domain name, not an IP address"
            THEN <<"X-Daktela-Url must use a domain name, not an IP address">>
            ELSE <<r[1].err>>)

InitUrl ==
    /\ now = StartTime
    /\ ticks = 0
    /\ env \in UrlEnvironments
    /\ minted = {}
    /\ last = [op |-> "none"]
    /\ net = {}
    /\ accepted = {}
    /\ request_config = [c \in Contexts |-> None]
    /\ headers = [c \in Contexts |-> NoHeaders]
    /\ stack = [c \in Contexts |-> <<>>]
    /\ store = <<>>

\* auth.py:30-67: _validate_url is applied to a candidate URL
ValidateUrl ==
    /\ Quiet
    /\ \E raw \in UrlInputs :
        \E result \in {validate_url(raw)} :
            last' = [op |-> "validate_url", request |-> raw, response |-> result,
                     message |-> IF result.ok THEN <<>> ELSE error_message(raw)]
    /\ UNCHANGED <<now, ticks, env, minted, net, accepted, request_config, headers, stack, store>>

NextUrl ==
    \/ ValidateUrl
    \/ Deliver

SpecUrl == InitUrl /\ [][NextUrl]_vars

(***************************************************************************)
(* Properties of the URL validator.                                        *)
(***************************************************************************)
\* _validate_url has just been applied to last.request
Validated == last.op = "validate_url"

\* what urlparse makes of the candidate, stripped as auth.py:41 strips it
ParsedUrl == urlparse(rstrip(strip(last.request), {"/"}))

\* the scheme of the candidate, lower-cased, whether or not the rest parses
SchemeOf(raw) ==
    With(<<rstrip(strip(raw), {"/"}), url_scheme_end(rstrip(strip(raw), {"/"}))>>,
         LAMBDA u : IF u[2] > 0 THEN lower(SubSeq(u[1], 1, u[2] - 1)) ELSE <<>>)

SecureScheme == <<"h", "t", "t", "p", "s">>

\* the hostname is a literal IPv4 address (digits and dots only) or a
\* literal IPv6 address (it contains a colon)
IpLiteral(hostname) ==
    hostname # <<>> /\ (isdigit(remove(hostname, ".")) \/ Contains(hostname, ":"))

IpLiteralHost == Validated /\ ParsedUrl.ok /\ IpLiteral(ParsedUrl.val.hostname)

IpError == "must use a domain name, not an IP address"

SchemeError == "must use HTTPS"

\* C22 as stated: for every backend URL whose hostname is a literal IPv4 or
\* IPv6 address, the validator fails with the IP-address error, whatever the
\* allowed domains are, the address itself included.
C22_IpLiteralGivesIpError ==
    IpLiteralHost => last.response = Raise(IpError)

\* C22: for every backend URL whose hostname is a literal IPv4 or IPv6
\* address, the validator fails, whatever the allowed domains are, the
\* address itself included; the failure is the IP-address error when the
\* scheme is https and the scheme error otherwise.
C22_IpLiteralRejected ==
    IpLiteralHost =>
        /\ ~last.response.ok
        /\ last.response.err =
              (IF ParsedUrl.val.scheme = SecureScheme THEN IpError ELSE SchemeError)

\* an https URL whose host is an IP address that the allowed domains list
\* has been refused with the IP-address error
C22_Witness ==
    /\ IpLiteralHost
    /\ ParsedUrl.val.scheme = SecureScheme
    /\ \E i \in 1..Len(get_allowed_domains) : get_allowed_domains[i] = ParsedUrl.val.hostname
    /\ Contains(ParsedUrl.val.hostname, ":")
    /\ last.response = Raise(IpError)

\* the hostname equals an allowed domain or is a sub-domain of one
AllowListed(hostname) ==
    \E i \in 1..Len(get_allowed_domains) :
        \/ hostname = get_allowed_domains[i]
        \/ endswith(hostname, <<".">> \o get_allowed_domains[i])

\* the URL passes every rule of the validator
PassesRules ==
    /\ ParsedUrl.ok
    /\ ParsedUrl.val.scheme = SecureScheme
    /\ ParsedUrl.val.hostname # <<>>
    /\ ~IpLiteral(ParsedUrl.val.hostname)
    /\ AllowListed(ParsedUrl.val.hostname)

\* the error of the first rule that the parsed URL fails, in the order
\* scheme, hostname, IP literal, allow-list
FirstFailingRule ==
    IF ParsedUrl.val.scheme # SecureScheme THEN SchemeError
    ELSE IF ParsedUrl.val.hostname = <<>> THEN "has no hostname"
    ELSE IF IpLiteral(ParsedUrl.val.hostname) THEN IpError
    ELSE "is not allowed"

\* the allow-list error names every allowed domain d as the suffix *.d
NamesAllowedSuffixes ==
    last.response.err = "is not allowed" =>
        /\ Len(last.message) = 3
        /\ \A i \in 1..Len(get_allowed_domains) :
              \E j \in 1..Len(last.message[3]) :
                  last.message[3][j] = <<"*", ".">> \o get_allowed_domains[i]

SchemeHostPath(raw) ==
    LET url == rstrip(strip(raw), {"/"})
        colon == url_scheme_end(url)
        rest == SubSeq(url, colon + 1, Len(url))
        netloc == url_netloc(rest)
        host == SubSeq(netloc, RFind(netloc, "@") + 1, Len(netloc))
        after == SubSeq(rest, 3 + Len(netloc), Len(rest))
        cut == FindAny(after, {"?", "#"}, 1)
        path == IF cut = 0 THEN after ELSE SubSeq(after, 1, cut - 1)
    IN  Text(SubSeq(url, 1, colon) \o <<"/", "/">> \o host \o rstrip(path, {"/"}))

\* C24: for every URL the validator accepts, the string it returns is the
\* normalized URL made of scheme, host and path only, with the surrounding
\* whitespace removed and no trailing slash.
C24_ReturnsSchemeHostPath ==
    (Validated /\ last.response.ok) => last.response.val = SchemeHostPath(last.request)

(***************************************************************************)
(* Properties of the token endpoint's errors.                              *)
(***************************************************************************)
\* the token endpoint answered without issuing tokens
Refused == Answered /\ last.response.status # 200

\* the grant type is neither of the two the endpoint serves
UnknownGrant ==
    /\ Answered /\ last.request.readable
    /\ last.request.grant_type \notin {"authorization_code", "refresh_token"}

\* C25: every response of the token endpoint that is not a success has
\* status 400 and a JSON body with both error and error_description, the
\* answer to an unreadable form included; a grant type other than
\* authorization_code and refresh_token, an absent one included, is answered
\* with unsupported_grant_type and a description that names the value.
C25_ErrorsAreDescribed400s ==
    /\ Refused =>
          /\ last.response.status = 400
          /\ {"error", "error_description"} \subseteq DOMAIN last.response
          /\ last.response.error # ""
    /\ UnknownGrant =>
          /\ last.response.status = 400
          /\ last.response.error = "unsupported_grant_type"
          /\ last.response.error_description = "Unsupported: " \o last.request.grant_type

(***************************************************************************)
(* cache.py: the in-process TTL cache of reference data.  A key is the     *)
(* tuple of identity, endpoint, skip, take, sort and sort_dir; an entry is *)
(* the time it expires at and the cached result.                           *)
(***************************************************************************)
CACHEABLE_ENDPOINTS ==
    {"users", "queues", "ticketsCategories", "groups", "pauses", "statuses", "templates",
     "campaignsTypes"}

DEFAULT_TTL == 3600

\* cache.py:31-32 _enabled
enabled ==
    lower(Get(env, "CACHE_ENABLED", <<"t", "r", "u", "e">>))
        \notin {<<"f", "a", "l", "s", "e">>, <<"0">>, <<"n", "o">>}

\* cache.py:35-36 _ttl
ttl == Get(env, "CACHE_TTL_SECONDS", DEFAULT_TTL)

\* cache.py:39-58 get: the cached result or None, and _store afterwards
cache_get(st, identity, endpoint, skip, take, sort, sort_dir) ==
    LET key == <<identity, endpoint, skip, take, sort, sort_dir>>
    IN  IF ~enabled \/ endpoint \notin CACHEABLE_ENDPOINTS THEN [data |-> None, store |-> st]
        ELSE IF key \notin DOMAIN st THEN [data |-> None, store |-> st]
        ELSE IF now > st[key].expires_at THEN [data |-> None, store |-> [k \in DOMAIN st \ {key} |-> st[k]]]
        ELSE [data |-> st[key].data, store |-> st]

\* cache.py:61-78 put: _store afterwards
cache_put(st, identity, endpoint, skip, take, sort, sort_dir, data) ==
    LET key == <<identity, endpoint, skip, take, sort, sort_dir>>
        expired == {k \in DOMAIN st : now > st[k].expires_at}
        kept == [k \in DOMAIN st \ expired |-> st[k]]
    IN  IF ~enabled \/ endpoint \notin CACHEABLE_ENDPOINTS THEN st
        ELSE [k \in DOMAIN kept \cup {key} |->
                IF k = key THEN [expires_at |-> now + ttl, data |-> data] ELSE kept[k]]

(***************************************************************************)
(* The Daktela backend, one instance per tenant URL: its accounts, the     *)
(* static API tokens it has issued, and what it answers.  A login returns  *)
(* a session token of the account; a list returns the records the owner of *)
(* the X-AUTH-TOKEN may see.                                               *)
(***************************************************************************)
TenantA == "https://a.daktela.com"

TenantB == "https://b.daktela.com"

BackendAccounts ==
    [u \in {TenantA, TenantB} |->
        IF u = TenantA THEN [admin |-> "password-admin", lead |-> "password-lead"]
        ELSE [admin |-> "password-b"]]

BackendTokens ==
    [u \in {TenantA, TenantB} |->
        IF u = TenantA THEN [k \in {"token-lead"} |-> "lead"] ELSE <<>>]

SessionOf(username) == "session-of-" \o username

\* POST {base_url}/api/v6/login.json
backend_login(base_url, username, password) ==
    IF /\ base_url \in DOMAIN BackendAccounts
       /\ username \in DOMAIN BackendAccounts[base_url]
       /\ BackendAccounts[base_url][username] = password
    THEN [status_code |-> 200, accessToken |-> SessionOf(username)]
    ELSE [status_code |-> 401, accessToken |-> ""]

\* the account a token of the tenant belongs to, "" when it is none's
TokenOwner(base_url, token) ==
    IF base_url \notin DOMAIN BackendAccounts THEN ""
    ELSE IF token \in DOMAIN BackendTokens[base_url] THEN BackendTokens[base_url][token]
    ELSE IF \E u \in DOMAIN BackendAccounts[base_url] : token = SessionOf(u)
    THEN CHOOSE u \in DOMAIN BackendAccounts[base_url] : token = SessionOf(u)
    ELSE ""

\* GET {base_url}/api/v6/{endpoint}.json with X-AUTH-TOKEN
backend_list(base_url, token, endpoint, params) ==
    IF TokenOwner(base_url, token) = "" THEN [status_code |-> 401, result |-> None]
    ELSE [status_code |-> 200,
          result |-> [tenant |-> base_url, visible_to |-> TokenOwner(base_url, token),
                      endpoint |-> endpoint, params |-> params]]

(***************************************************************************)
(* client.py: DaktelaClient.  None is the empty text.                      *)
(***************************************************************************)
\* client.py:28-44 __init__
DaktelaClient(base_url, token, username, password) ==
    [base_url |-> Text(rstrip(base_url, {"/"})), username |-> username,
     password |-> password, token |-> token]

\* server.py:248-253 _get_client
get_client(config) ==
    IF "username" \in DOMAIN config
    THEN DaktelaClient(config.url, "", config.username, config.password)
    ELSE DaktelaClient(config.url, config.token, "", "")

\* client.py:46-49 __aenter__ and 58-70 _login: the client with its session
\* token, or the HTTPStatusError of raise_for_status
aenter(client) ==
    IF client.username # "" /\ client.password # "" /\ client.token = ""
    THEN With(backend_login(client.base_url, client.username, client.password),
              LAMBDA resp :
                 IF resp.status_code # 200 THEN Raise("HTTPStatusError")
                 ELSE Ok([client EXCEPT !.token = resp.accessToken]))
    ELSE Ok(client)

\* client.py:100-102 _cache_identity
cache_identity(client) ==
    <<client.base_url, IF client.username # "" THEN client.username ELSE client.token>>

\* client.py:104-156 list: what it returns or raises, whether the result
\* came from the cache, and _store afterwards
list(client, endpoint, field_filters, skip, take, sort, sort_dir, fields) ==
    LET cacheable == field_filters = None /\ fields = None
        looked == IF cacheable
                  THEN cache_get(store, cache_identity(client), endpoint, skip, take, sort,
                                 sort_dir)
                  ELSE [data |-> None, store |-> store]
        params == [filters |-> field_filters, skip |-> skip, take |-> take, sort |-> sort,
                   dir |-> sort_dir, fields |-> fields]
        resp == backend_list(client.base_url, client.token, endpoint, params)
    IN  IF looked.data # None
        THEN [result |-> Ok(looked.data), cached |-> TRUE, store |-> looked.store]
        ELSE IF resp.status_code # 200
        THEN [result |-> Raise("HTTPStatusError"), cached |-> FALSE, store |-> looked.store]
        ELSE [result |-> Ok(resp.result), cached |-> FALSE,
              store |-> IF cacheable
                        THEN cache_put(looked.store, cache_identity(client), endpoint, skip,
                                       take, sort, sort_dir, resp.result)
                        ELSE looked.store]

(***************************************************************************)
(* SpecCache: tool calls of several users that list reference data, on a   *)
(* server whose cache is enabled, disabled or short-lived.                 *)
(***************************************************************************)
\* the configs get_config hands to _get_client: users of one tenant by
\* password and by token, a user of another tenant with the same user name,
\* a wrong password, and a token that reads like a user name
CacheConfigs ==
    LET UrlA == HTTPS \o <<"a", ".">> \o DAKTELA_COM
    IN  {[url |-> UrlA, username |-> "admin", password |-> "password-admin"],
         [url |-> UrlA, username |-> "lead", password |-> "password-lead"],
         [url |-> UrlA, username |-> "admin", password |-> "guess"],
         [url |-> UrlA \o <<"/">>, token |-> "token-lead"],
         [url |-> UrlA, token |-> "admin"],
         [url |-> UrlTenantB, username |-> "admin", password |-> "password-b"]}

ShortTtl == 300

CacheSettings ==
    {<<>>,
     [CACHE_ENABLED |-> <<"F", "a", "l", "s", "e">>],
     [CACHE_TTL_SECONDS |-> ShortTtl]}

CacheEnvironments ==
    {setting @@ e : setting \in CacheSettings,
                    e \in {x \in Environments : x.JWT_SECRET # ""}}

InitCache ==
    /\ now = StartTime
    /\ ticks = 0
    /\ env \in CacheEnvironments
    /\ minted = {}
    /\ last = [op |-> "none"]
    /\ net = {}
    /\ accepted = {}
    /\ request_config = [c \in Contexts |-> None]
    /\ headers = [c \in Contexts |-> NoHeaders]
    /\ stack = [c \in Contexts |-> <<>>]
    /\ store = <<>>

\* server.py: async with _get_client() as client: await client.list(...)
ListCall ==
    /\ Quiet
    /\ \E config \in CacheConfigs, endpoint \in {"users", "tickets"},
          field_filters \in {None, <<"stage", "eq", "OPEN">>} :
        \E entered \in {aenter(get_client(config))} :
            IF ~entered.ok
            THEN /\ last' = [op |-> "list", config |-> config, endpoint |-> endpoint,
                             field_filters |-> field_filters, result |-> Raise(entered.err),
                             cached |-> FALSE]
                 /\ store' = store
            ELSE \E out \in {list(entered.val, endpoint, field_filters, 0, 50, None, "desc",
                                  None)} :
                    /\ last' = [op |-> "list", config |-> config, endpoint |-> endpoint,
                                field_filters |-> field_filters, result |-> out.result,
                                cached |-> out.cached]
                    /\ store' = out.store
    /\ UNCHANGED <<now, ticks, env, minted, net, accepted, request_config, headers, stack>>

NextCache ==
    \/ Tick
    \/ ListCall
    \/ Deliver

SpecCache == InitCache /\ [][NextCache]_vars

(***************************************************************************)
(* Properties of the cache.                                                *)
(***************************************************************************)
Listed == last.op = "list"

\* the account of the tenant that the credentials of a config are those of,
\* "" when the backend knows no such credentials
Principal(config) ==
    With(aenter(get_client(config)),
         LAMBDA entered : IF ~entered.ok THEN ""
                          ELSE TokenOwner(entered.val.base_url, entered.val.token))

\* C26: a list call is answered from the cache only with a result that was
\* stored for the same backend URL and the same user: whatever the sequence
\* of list calls by clients of different tenants, or of different users of
\* one tenant, a client that is handed a cached result is handed records of
\* its own tenant, fetched with credentials of its own account.
C26_CacheNeverLeaks ==
    (Listed /\ last.result.ok /\ last.cached) =>
        /\ last.result.val.tenant = get_client(last.config).base_url
        /\ last.result.val.visible_to = Principal(last.config)

(***************************************************************************)
(* Properties of the expiry parsing.                                       *)
(***************************************************************************)
\* a login of this request succeeded and its reply dates the session's end
Dated ==
    /\ LoggedIn
    /\ LoginSucceeded(last.reply)
    /\ "accessTokenExpirationDate" \in DOMAIN last.reply.result
    /\ last.reply.result.accessTokenExpirationDate.wellformed

\* C27: _parse_daktela_datetime reads the backend's timestamp in the
\* backend's timezone, not in UTC: the result is the UTC reading less the
\* backend's offset, so the daktela_access_exp of the authorization code and
\* the exp of the access token derived from it are the instant at which the
\* backend session ends.
C27_DateReadInBackendZone ==
    Dated =>
        LET date == last.reply.result.accessTokenExpirationDate
        IN  /\ parse_daktela_datetime(date) = Ok(date.wall - BackendUtcOffset)
            /\ \A s \in last.signed :
                  /\ s.claims.type = "auth_code" =>
                        s.claims.daktela_access_exp = BackendInstant(date)
                  /\ s.claims.type = "access_token" => s.claims.exp = BackendInstant(date)

(***************************************************************************)
(* Properties of replayed authorization codes.                             *)
(***************************************************************************)
\* the exchange presents a code this process signed, with the verifier of
\* its challenge and a redirect_uri that does not contradict it
Replayable ==
    /\ Exchanged
    /\ Verifies(last.request.code)
    /\ Claims(last.request.code).type = "auth_code"
    /\ encode_ascii(last.request.code_verifier).ok
    /\ s256_challenge(encode_ascii(last.request.code_verifier).val)
          = Claims(last.request.code).code_challenge
    /\ ~redirect_uri_mismatch(last.request.redirect_uri, Claims(last.request.code))

\* what the server keeps between requests
ServerState == <<env, net, accepted, request_config, headers, stack, store>>

\* C28: the token endpoint keeps no record of used authorization codes.  An
\* exchange changes no server state; an authorization code expires 300
\* seconds after it is issued; and whatever happened before, a code
\* presented with its verifier is exchanged for a token pair whenever its
\* exp is still ahead, and refused with invalid_grant from its exp on.
C28_CodesAreReplayableUntilExp ==
    /\ [](/\ (Submitted /\ last.response.status = 302) =>
                \A s \in last.signed : s.claims.exp = now + AUTH_CODE_LIFETIME
          /\ Replayable =>
                IF now < Claims(last.request.code).exp
                THEN /\ TokenPair
                     /\ Claims(last.response.access_token).daktela_access_token
                           = Claims(last.request.code).daktela_access_token
                ELSE /\ last.response.status = 400
                     /\ last.response.error = "invalid_grant"
                     /\ NoTokens)
    /\ [][Exchanged' => UNCHANGED ServerState]_vars

\* a code issued at the start is exchanged in the last second of its life
C28_Witness ==
    /\ Replayable
    /\ TokenPair
    /\ Claims(last.request.code).exp = StartTime + AUTH_CODE_LIFETIME
    /\ now = Claims(last.request.code).exp - 1

(***************************************************************************)
(* Properties of the re-rendered login form.                               *)
(***************************************************************************)
\* a submission was refused and the form rendered again
Rerendered == Submitted /\ last.response.status = 200 /\ last.response.kind = "form"

\* the OAuth parameters of a form or of a rendered page
OAuthFields == {"client_id", "redirect_uri", "code_challenge", "code_challenge_method", "state"}

\* the form of the page in last.response, submitted with credentials that
\* the validator and the backend accept
Resubmission ==
    [method |-> "POST",
     form |-> [daktela_url |-> UrlTenantA, username |-> <<"u", "1">>,
               password |-> "password-1",
               redirect_uri |-> last.response.redirect_uri,
               client_id |-> last.response.client_id,
               code_challenge |-> last.response.code_challenge,
               code_challenge_method |-> last.response.code_challenge_method,
               state |-> last.response.state],
     query_params |-> last.request.query_params]

SessionGranted ==
    [kind |-> "response", status |-> 200, body |-> "json",
     result |-> [accessToken |-> "session-2"]]

\* C29: when a submission is refused, the form rendered again carries as
\* hidden fields the client_id, redirect_uri, code_challenge,
\* code_challenge_method and state that were submitted; submitting it again
\* with good credentials (when a redirect_uri and S256 were submitted) gives
\* a redirect to the original redirect_uri with the original state and a
\* code bound to the original redirect_uri and challenge.
C29_HiddenFieldsRoundTrip ==
    Rerendered =>
        /\ \A f \in OAuthFields : last.response[f] = last.request.form[f]
        /\ (/\ env.JWT_SECRET # ""
            /\ last.request.form.redirect_uri # ""
            /\ last.request.form.code_challenge_method = "S256") =>
              LET again == handle_authorize(Resubmission, SessionGranted).response
              IN  /\ again.status = 302
                  /\ again.location.redirect_uri = last.request.form.redirect_uri
                  /\ again.location.state = last.request.form.state
                  /\ Claims(again.location.code).redirect_uri = last.request.form.redirect_uri
                  /\ Claims(again.location.code).code_challenge
                        = last.request.form.code_challenge

(***************************************************************************)
(* Properties of the chain of grants.                                      *)
(***************************************************************************)
\* the claims of the token a grant was asked with: the authorization code
\* of an exchange, the refresh token of a refresh
InputClaims ==
    IF Exchanged THEN Claims(last.request.code) ELSE Claims(last.request.refresh_token)

\* C30: every grant of the token endpoint hands on what it was given: the
\* access and the refresh token it issues carry the backend URL of its input
\* token and the refresh token carries the input's user name and password,
\* so along authorize, exchange, refresh, refresh ... they stay those of the
\* authorization code; the session of the access token is the code's on an
\* exchange and, on a refresh, the one of a login sent with exactly the
\* URL, user name and password of the input.
C30_ChainKeepsAccount ==
    (Answered /\ TokenPair) =>
        LET access == Claims(last.response.access_token)
            refresh == Claims(last.response.refresh_token)
        IN  /\ access.daktela_url = InputClaims.daktela_url
            /\ refresh.daktela_url = InputClaims.daktela_url
            /\ refresh.daktela_username = InputClaims.daktela_username
            /\ refresh.daktela_password = InputClaims.daktela_password
            /\ Exchanged => /\ access.daktela_access_token = InputClaims.daktela_access_token
                            /\ last.logins = {}
            /\ Refreshed => /\ last.logins = {[url |-> InputClaims.daktela_url,
                                               username |-> InputClaims.daktela_username,
                                               password |-> InputClaims.daktela_password,
                                               by |-> "refresh"]}
                            /\ access.daktela_access_token = last.reply.result.accessToken

\* a refresh token that was itself issued after the clock moved, so not by
\* the first exchange, has been refreshed for the same account
C30_Witness ==
    /\ Refreshed
    /\ TokenPair
    /\ Claims(last.request.refresh_token).exp > StartTime + REFRESH_TOKEN_LIFETIME
    /\ Claims(last.response.refresh_token).daktela_username
          = Claims(last.request.refresh_token).daktela_username
    /\ Claims(last.response.refresh_token).daktela_username # ""

=============================================================================
